---- MODULE Spec2Model ----
(***************************************************************************)
(* LogicPaper: the per-value formatting pipeline (app/core/formatter.py,   *)
(* app/core/strategies/*.py), the template validator                       *)
(* (app/core/validator.py) and the inline tags of slides                   *)
(* (app/core/engine.py), as pure operators driven by a state machine whose *)
(* actions are calls of the public entry points; and the log streams of    *)
(* app/main.py as interleaved steps of their generators.                   *)
(*                                                                         *)
(* Python text is a sequence of one-character strings; a Python value is a *)
(* record [k |-> kind, v |-> payload].                                     *)
(***************************************************************************)
EXTENDS Integers, Sequences, FiniteSets, TLC

VARIABLES
    call,      \* name of the entry point called last ("init" before any call)
    input,     \* the arguments of that call
    output,    \* what the call returned
    visited,   \* positions of ops the call executed as operation keywords
    locals,    \* the call's local variables when it returned
    prev,      \* output of the call before (used by re-application)
    log_queues,  \* main.log_queues: session id -> the queue registered for it
    queue,       \* per stream: the content of the queue its log_generator made
    pc,          \* per stream: where its log_generator stands
    session_id,  \* per stream: the session id it was opened for
    stream,      \* per stream: the data of the events yielded so far
    sent,        \* per session: how many messages the job has sent
    heard        \* per stream: the messages sent to its session while it read

\* the state of the log streams (app/main.py)
sse == <<log_queues, queue, pc, session_id, stream, sent, heard>>

vars == <<call, input, output, visited, locals, prev, sse>>

----------------------------------------------------------------------------
(* Python text primitives *)

Range(s) == {s[i] : i \in 1..Len(s)}

WhiteSpace == {" ", "\t", "\n", "\r"}

Digits == <<"0", "1", "2", "3", "4", "5", "6", "7", "8", "9">>

UpperAlpha == <<"A", "B", "C", "D", "E", "F", "G", "H", "I", "J", "K", "L", "M",
                "N", "O", "P", "Q", "R", "S", "T", "U", "V", "W", "X", "Y", "Z">>

LowerAlpha == <<"a", "b", "c", "d", "e", "f", "g", "h", "i", "j", "k", "l", "m",
                "n", "o", "p", "q", "r", "s", "t", "u", "v", "w", "x", "y", "z">>

IsDigit(c) == c \in Range(Digits)

IsAlpha(c) == c \in Range(UpperAlpha) \cup Range(LowerAlpha)

IsAlnum(c) == IsDigit(c) \/ IsAlpha(c)

DigitVal(c) == (CHOOSE i \in 1..10 : Digits[i] = c) - 1

LowerChar(c) ==
    IF c \in Range(UpperAlpha)
    THEN LowerAlpha[CHOOSE i \in 1..26 : UpperAlpha[i] = c]
    ELSE c

UpperChar(c) ==
    IF c \in Range(LowerAlpha)
    THEN UpperAlpha[CHOOSE i \in 1..26 : LowerAlpha[i] = c]
    ELSE c

\* str.lower(), str.upper()
Lower(s) == [i \in 1..Len(s) |-> LowerChar(s[i])]

Upper(s) == [i \in 1..Len(s) |-> UpperChar(s[i])]

\* str.title(): a letter is upper-cased after a non-letter, lower-cased after a letter
Title(s) ==
    [i \in 1..Len(s) |->
        IF i = 1 \/ ~IsAlpha(s[i - 1]) THEN UpperChar(s[i]) ELSE LowerChar(s[i])]

\* str.strip(): remove leading and trailing whitespace
Strip(s) ==
    LET keep == {i \in 1..Len(s) : s[i] \notin WhiteSpace}
    IN  IF keep = {} THEN <<>>
        ELSE LET lo == CHOOSE i \in keep : \A j \in keep : i <= j
                 hi == CHOOSE i \in keep : \A j \in keep : i >= j
             IN  SubSeq(s, lo, hi)

\* "".join(filter(pred, s)) for the characters in the set keepSet
RECURSIVE Filter(_, _)
Filter(s, keepSet) ==
    IF s = <<>> THEN <<>>
    ELSE IF Head(s) \in keepSet
         THEN <<Head(s)>> \o Filter(Tail(s), keepSet)
         ELSE Filter(Tail(s), keepSet)

\* s.replace(c, ""), for each c of dropSet
RemoveChars(s, dropSet) == Filter(s, Range(s) \ dropSet)

\* s.replace(c, r) for single characters c and r
ReplaceChar(s, c, r) == [i \in 1..Len(s) |-> IF s[i] = c THEN r ELSE s[i]]

\* s.find(c): the first position of c (1-based), 0 when absent
Find(s, c) ==
    IF c \in Range(s)
    THEN CHOOSE i \in 1..Len(s) : s[i] = c /\ \A j \in 1..(i - 1) : s[j] # c
    ELSE 0

\* sep.join(parts)
RECURSIVE Join(_, _)
Join(parts, sep) ==
    IF parts = <<>> THEN <<>>
    ELSE IF Len(parts) = 1 THEN parts[1]
    ELSE parts[1] \o <<sep>> \o Join(Tail(parts), sep)

RECURSIVE Pow10(_)
Pow10(n) == IF n = 0 THEN 1 ELSE 10 * Pow10(n - 1)

\* the decimal digits of a natural number
RECURSIVE NatDigits(_)
NatDigits(n) ==
    IF n < 10 THEN <<Digits[n + 1]>>
    ELSE NatDigits(n \div 10) \o <<Digits[(n % 10) + 1]>>

\* str(n) of an int
IntStr(n) == IF n < 0 THEN <<"-">> \o NatDigits(0 - n) ELSE NatDigits(n)

\* the digits of n, zero-padded on the left to width w (the %0wd conversions)
RECURSIVE ZeroPad(_, _)
ZeroPad(s, w) == IF Len(s) >= w THEN s ELSE ZeroPad(<<"0">> \o s, w)

\* the natural number a digit string denotes
RECURSIVE DigitsNat(_)
DigitsNat(s) ==
    IF s = <<>> THEN 0
    ELSE DigitsNat(SubSeq(s, 1, Len(s) - 1)) * 10 + DigitVal(s[Len(s)])

AllDigits(s) == s # <<>> /\ \A i \in 1..Len(s) : IsDigit(s[i])

\* int(text): optional surrounding whitespace, optional sign, decimal digits.
\* ok = FALSE stands for ValueError.
ParseInt(text) ==
    LET t == Strip(text)
        signed == t # <<>> /\ t[1] \in {"+", "-"}
        body == IF signed THEN Tail(t) ELSE t
    IN  IF AllDigits(body)
        THEN [ok |-> TRUE,
              n |-> IF signed /\ t[1] = "-" THEN 0 - DigitsNat(body) ELSE DigitsNat(body)]
        ELSE [ok |-> FALSE, n |-> 0]

----------------------------------------------------------------------------
(* Python values *)

PyNone == [k |-> "none", v |-> <<>>]

PyStr(s) == [k |-> "str", v |-> s]

PyInt(n) == [k |-> "int", v |-> n]

\* the float m / 10^scale, in lowest terms: m is a multiple of 10 only when scale = 0
PyDecimal(m, scale) == [k |-> "float", v |-> m, scale |-> scale]

\* a float holding the integral value n
PyFloat(n) == PyDecimal(n, 0)

\* the floats inf (sign = 1) and -inf (sign = -1): they have no decimal
\* expansion, which the scale -1 marks
PyInfinity(sign) == PyDecimal(sign, 0 - 1)

\* math.isinf(x) of a float
IsInf(num) == num.scale < 0

\* datetime(y, m, d) plus sec seconds since midnight
PyDateTime(y, m, d, sec) == [k |-> "datetime", v |-> <<y, m, d, sec>>]

PyDict(d) == [k |-> "dict", v |-> d]

EmptyStr == PyStr(<<>>)

\* isoformat pieces of a datetime payload <<y, m, d, sec>>
DateIso(dt) ==
    ZeroPad(NatDigits(dt[1]), 4) \o <<"-">> \o ZeroPad(NatDigits(dt[2]), 2)
        \o <<"-">> \o ZeroPad(NatDigits(dt[3]), 2)

TimeIso(dt) ==
    ZeroPad(NatDigits(dt[4] \div 3600), 2) \o <<":">>
        \o ZeroPad(NatDigits((dt[4] \div 60) % 60), 2) \o <<":">>
        \o ZeroPad(NatDigits(dt[4] % 60), 2)

\* str(value)
Str(value) ==
    CASE value.k = "none" -> <<"N", "o", "n", "e">>
      [] value.k = "str" -> value.v
      [] value.k = "int" -> IntStr(value.v)
      [] value.k = "float" ->
            IF value.scale < 0
            THEN (IF value.v < 0 THEN <<"-">> ELSE <<>>) \o <<"i", "n", "f">>
            ELSE IF value.scale = 0 THEN IntStr(value.v) \o <<".", "0">>
            ELSE LET a == IF value.v < 0 THEN 0 - value.v ELSE value.v
                     p == Pow10(value.scale)
                 IN  (IF value.v < 0 THEN <<"-">> ELSE <<>>) \o NatDigits(a \div p)
                         \o <<".">> \o ZeroPad(NatDigits(a % p), value.scale)
      [] value.k = "datetime" -> DateIso(value.v) \o <<" ">> \o TimeIso(value.v)

----------------------------------------------------------------------------
(* LogicStrategy (app/core/strategies/logic_std.py) *)

kw_default == <<"d", "e", "f", "a", "u", "l", "t">>

kw_empty_if == <<"e", "m", "p", "t", "y", "_", "i", "f">>

\* fallback_arg.replace('"', "").replace("'", "")
StripQuotes(token) == RemoveChars(token, {"\"", "'"})

\* raw_op.split("=", 1)
MapKey(raw_op) == SubSeq(raw_op, 1, Find(raw_op, "=") - 1)

MapOutput(raw_op) == SubSeq(raw_op, Find(raw_op, "=") + 1, Len(raw_op))

\* mutant: a default pair returns at once whatever the value
DefaultFires_always(is_empty) == TRUE

\* "CASE A: Value is Empty -> Use Default immediately"
DefaultFires(is_empty) == is_empty

\* "Check if the current value matches this key"
MapMatches(str_val, raw_op) == str_val = Strip(MapKey(raw_op))

\* The for-loop over iter(ops), from position i with else-candidate fallback
\* (PyNone while none is recorded) and the positions seen executed so far.
\* returned = TRUE when a return statement inside the loop fired.
RECURSIVE LogicScan(_, _, _, _, _, _)
LogicScan(ops, i, is_empty, str_val, fallback, seen) ==
    IF i > Len(ops)
    THEN [returned |-> FALSE, value |-> fallback, seen |-> seen]
    ELSE
      LET raw_op == ops[i]
          op_key == Strip(Lower(raw_op))
          here == seen \cup {i}
      IN  IF op_key = kw_default
          THEN IF i + 1 > Len(ops)
               THEN \* StopIteration: warning, and the iterator is exhausted
                    [returned |-> FALSE, value |-> fallback, seen |-> here]
               ELSE LET fallback_arg == StripQuotes(ops[i + 1])
                    IN  IF DefaultFires(is_empty)
                        THEN [returned |-> TRUE, value |-> PyStr(fallback_arg),
                              seen |-> here]
                        ELSE LogicScan(ops, i + 2, is_empty, str_val,
                                       PyStr(fallback_arg), here)
          ELSE IF op_key = kw_empty_if
          THEN IF i + 1 > Len(ops)
               THEN [returned |-> FALSE, value |-> fallback, seen |-> here]
               ELSE IF str_val = ops[i + 1]
                    THEN [returned |-> TRUE, value |-> EmptyStr, seen |-> here]
                    ELSE LogicScan(ops, i + 2, is_empty, str_val, fallback, here)
          ELSE IF "=" \in Range(raw_op)
          THEN IF MapMatches(str_val, raw_op)
               THEN [returned |-> TRUE, value |-> PyStr(Strip(MapOutput(raw_op))),
                     seen |-> here]
               ELSE LogicScan(ops, i + 1, is_empty, str_val, fallback, here)
          ELSE LogicScan(ops, i + 1, is_empty, str_val, PyStr(raw_op), here)

\* mutant: only None counts as empty
LogicIsEmpty_none_only(value) == value = PyNone

LogicIsEmpty(value) == value = PyNone \/ Strip(Str(value)) = <<>>

LogicStrVal(value) == IF value # PyNone THEN Strip(Str(value)) ELSE <<>>

LogicRun(value, ops) ==
    LogicScan(ops, 1, LogicIsEmpty(value), LogicStrVal(value), PyNone, {})

\* LogicStrategy.process(value, ops)
LogicStrategy_process(value, ops) ==
    LET r == LogicRun(value, ops)
    IN  IF r.returned THEN r.value
        ELSE IF ~LogicIsEmpty(value) /\ r.value # PyNone THEN r.value
        ELSE value

----------------------------------------------------------------------------
(* DataFormatter (app/core/formatter.py) *)

\* text.split(sep): the segments between the occurrences of the character sep
RECURSIVE Split(_, _)
Split(text, sep) ==
    LET p == Find(text, sep)
    IN  IF p = 0 THEN <<text>>
        ELSE <<SubSeq(text, 1, p - 1)>> \o Split(SubSeq(text, p + 1, Len(text)), sep)

t_string == <<"s", "t", "r", "i", "n", "g">>

t_int == <<"i", "n", "t">>

t_float == <<"f", "l", "o", "a", "t">>

t_currency == <<"c", "u", "r", "r", "e", "n", "c", "y">>

t_date == <<"d", "a", "t", "e">>

t_mask == <<"m", "a", "s", "k">>

t_image == <<"i", "m", "a", "g", "e">>

t_logic == <<"l", "o", "g", "i", "c">>

\* a Python dict is a function from its keys; d.get(key) is None for a missing key
PyGet(d, key) == IF key \in DOMAIN d THEN d[key] ELSE PyNone

\* DataFormatter.parse_protocol(protocol_string)
parse_protocol(protocol_string) ==
    IF protocol_string = PyNone \/ Str(protocol_string) = <<>>
          \/ Strip(Str(protocol_string)) = <<>>
    THEN [type |-> PyStr(t_string), format |-> PyNone]
    ELSE LET parts == Split(Str(protocol_string), ";")
         IN  [type |-> PyStr(Strip(Lower(parts[1]))),
              format |-> IF Len(parts) > 1 THEN PyStr(Strip(parts[2])) ELSE PyNone,
              options |-> IF Len(parts) > 2 THEN PyStr(Strip(parts[3])) ELSE PyNone]

\* Python truthiness of None and of text
Truthy(x) == x # PyNone /\ x # EmptyStr

\* float(value) of the values the calls are given: text of decimal digits, ints.
\* err is "" on success, else the exception raised.
ToFloat(value) ==
    CASE value.k = "int" -> [err |-> "", n |-> value.v]
      [] value.k = "float" /\ value.scale = 0 -> [err |-> "", n |-> value.v]
      [] value.k = "str" ->
            IF ParseInt(value.v).ok
            THEN [err |-> "", n |-> ParseInt(value.v).n]
            ELSE [err |-> "ValueError", n |-> 0]
      [] OTHER -> [err |-> "TypeError", n |-> 0]

\* format(num, fmt) of a non-negative int below 1000 for the format specs
\* [0][width][d] and ","; any other spec raises ValueError (ok = FALSE)
FormatInt(num, fmt) ==
    LET zero == fmt # <<>> /\ fmt[1] = "0"
        r1 == IF zero THEN Tail(fmt) ELSE fmt
        hasw == r1 # <<>> /\ IsDigit(r1[1])
        width == IF hasw THEN DigitVal(r1[1]) ELSE 0
        r2 == IF hasw THEN Tail(r1) ELSE r1
        digits == NatDigits(num)
        pad == [i \in 1..(IF width > Len(digits) THEN width - Len(digits) ELSE 0)
                    |-> IF zero THEN "0" ELSE " "]
    IN  IF fmt = <<",">> THEN [ok |-> TRUE, s |-> digits]
        ELSE IF r2 \in {<<>>, <<"d">>} THEN [ok |-> TRUE, s |-> pad \o digits]
        ELSE [ok |-> FALSE, s |-> <<>>]

\* f"{num:.2f}" of an integral float
Fixed2(n) == IntStr(n) \o <<".", "0", "0">>

\* the text an external formatting library returns: opaque, never empty
Opaque(what, args) == PyStr(<<what, "(">> \o args \o <<")">>)

\* dt.strftime(pattern) for the directives %Y %m %d %H %M %S; other characters
\* are copied
RECURSIVE Strftime(_, _)
Strftime(dt, pattern) ==
    IF pattern = <<>> THEN <<>>
    ELSE IF pattern[1] = "%" /\ Len(pattern) > 1
    THEN LET c == pattern[2]
             piece == CASE c = "Y" -> ZeroPad(NatDigits(dt[1]), 4)
                        [] c = "m" -> ZeroPad(NatDigits(dt[2]), 2)
                        [] c = "d" -> ZeroPad(NatDigits(dt[3]), 2)
                        [] c = "H" -> ZeroPad(NatDigits(dt[4] \div 3600), 2)
                        [] c = "M" -> ZeroPad(NatDigits((dt[4] \div 60) % 60), 2)
                        [] c = "S" -> ZeroPad(NatDigits(dt[4] % 60), 2)
                        [] OTHER -> <<"%", c>>
         IN  piece \o Strftime(dt, SubSeq(pattern, 3, Len(pattern)))
    ELSE <<pattern[1]>> \o Strftime(dt, Tail(pattern))

\* the '#' pattern mask of format_value and of MaskStrategy._apply_generic_mask:
\* the loop over the pattern from position i, val_idx characters of clean_val used
RECURSIVE MaskLoop(_, _, _, _)
MaskLoop(clean_val, pattern, i, val_idx) ==
    IF i > Len(pattern) THEN <<>>
    ELSE IF pattern[i] = "#"
    THEN IF val_idx < Len(clean_val)
         THEN <<clean_val[val_idx + 1]>> \o MaskLoop(clean_val, pattern, i + 1, val_idx + 1)
         ELSE <<>>
    ELSE <<pattern[i]>> \o MaskLoop(clean_val, pattern, i + 1, val_idx)

\* mutant: the value is used as it is, nothing is filtered out
AlnumOnly_unfiltered(text) == text

\* "".join(filter(str.isalnum, value))
AlnumOnly(text) == Filter(text, {c \in Range(text) : IsAlnum(c)})

\* DataFormatter.format_value(value, protocol)
format_value(value, protocol) ==
    IF value = PyNone THEN EmptyStr
    ELSE
      LET dtype == IF "type" \in DOMAIN protocol THEN protocol["type"] ELSE PyStr(t_string)
          fmt == PyGet(protocol, "format")
          text == Str(value)
          num == ToFloat(value)
      IN  CASE dtype = PyStr(t_string) ->
                 IF fmt = PyStr(<<"u", "p", "p", "e", "r">>) THEN PyStr(Upper(text))
                 ELSE IF fmt = PyStr(<<"l", "o", "w", "e", "r">>) THEN PyStr(Lower(text))
                 ELSE IF fmt = PyStr(<<"t", "i", "t", "l", "e">>) THEN PyStr(Title(text))
                 ELSE PyStr(text)
            [] dtype = PyStr(t_int) ->
                 IF num.err = "ValueError" THEN value
                 ELSE IF num.err # "" THEN PyStr(text)
                 ELSE IF Truthy(fmt)
                      THEN IF FormatInt(num.n, fmt.v).ok
                           THEN PyStr(FormatInt(num.n, fmt.v).s)
                           ELSE value
                      ELSE PyInt(num.n)
            [] dtype = PyStr(t_float) ->
                 IF num.err = "ValueError" THEN value
                 ELSE IF num.err # "" THEN PyStr(text)
                 ELSE IF fmt = PyStr(<<".">>) THEN PyStr(Fixed2(num.n))
                 ELSE IF fmt = PyStr(<<",">>)
                      THEN PyStr(ReplaceChar(Fixed2(num.n), ".", ","))
                 ELSE PyFloat(num.n)
            [] dtype = PyStr(t_currency) ->
                 IF num.err # "" THEN value
                 ELSE Opaque("babel.numbers.format_currency",
                             IntStr(num.n) \o <<",">>
                                 \o (IF Truthy(fmt) THEN fmt.v ELSE <<"B", "R", "L">>))
            [] dtype = PyStr(t_date) ->
                 IF value.k # "datetime" THEN PyStr(text)
                 ELSE IF fmt = PyStr(<<"i", "s", "o">>)
                      THEN PyStr(DateIso(value.v) \o <<"T">> \o TimeIso(value.v))
                 ELSE IF fmt = PyStr(<<"l", "o", "n", "g">>)
                      THEN Opaque("babel.dates.format_date", DateIso(value.v))
                 ELSE IF Truthy(fmt) THEN PyStr(Strftime(value.v, fmt.v))
                 ELSE PyStr(Strftime(value.v, <<"%", "d", "/", "%", "m", "/", "%", "Y">>))
            [] dtype = PyStr(t_mask) ->
                 IF ~Truthy(fmt) THEN PyStr(text)
                 ELSE PyStr(MaskLoop(AlnumOnly(text), fmt.v, 1, 0))
            [] dtype = PyStr(t_image) ->
                 PyDict([type |-> PyStr(t_image), filename |-> PyStr(text),
                         width |-> fmt, height |-> PyGet(protocol, "options")])
            [] OTHER -> PyStr(text)

----------------------------------------------------------------------------
(* datetime arithmetic of the standard library, as DateStrategy uses it *)

\* datetime.MINYEAR, datetime.MAXYEAR
MINYEAR == 1

MAXYEAR == 9999

IsLeap(y) == y % 4 = 0 /\ (y % 100 # 0 \/ y % 400 = 0)

DaysInMonth(y, m) ==
    IF m = 2 THEN (IF IsLeap(y) THEN 29 ELSE 28)
    ELSE IF m \in {4, 6, 9, 11} THEN 30 ELSE 31

RECURSIVE DaysBeforeMonth(_, _)
DaysBeforeMonth(y, m) ==
    IF m = 1 THEN 0 ELSE DaysBeforeMonth(y, m - 1) + DaysInMonth(y, m - 1)

DaysBeforeYear(y) ==
    (y - 1) * 365 + ((y - 1) \div 4) - ((y - 1) \div 100) + ((y - 1) \div 400)

\* a (year, month, day) the datetime type can hold
ValidDate(y, m, d) ==
    /\ y \in MINYEAR..MAXYEAR
    /\ m \in 1..12
    /\ d \in 1..DaysInMonth(y, m)

\* date.toordinal()
ToOrdinal(y, m, d) == DaysBeforeYear(y) + DaysBeforeMonth(y, m) + d

MaxOrdinal == ToOrdinal(MAXYEAR, 12, 31)

\* date.fromordinal(n), for 1 <= n <= MaxOrdinal
FromOrdinal(n) ==
    LET n0 == n - 1
        n400 == n0 \div 146097
        r400 == n0 % 146097
        n100 == r400 \div 36524
        r100 == r400 % 36524
        n4 == r100 \div 1461
        r4 == r100 % 1461
        n1 == r4 \div 365
        r1 == r4 % 365
        year == n400 * 400 + n100 * 100 + n4 * 4 + n1 + 1
    IN  IF n1 = 4 \/ n100 = 4 THEN <<year - 1, 12, 31>>
        ELSE LET month == CHOOSE m \in 1..12 :
                             /\ DaysBeforeMonth(year, m) <= r1
                             /\ r1 < DaysBeforeMonth(year, m) + DaysInMonth(year, m)
             IN  <<year, month, r1 - DaysBeforeMonth(year, month) + 1>>

\* dt + timedelta(days=days); err stands for OverflowError
AddDays(dt, days) ==
    LET n == ToOrdinal(dt[1], dt[2], dt[3]) + days
    IN  IF n < 1 \/ n > MaxOrdinal THEN [err |-> TRUE, dt |-> dt]
        ELSE [err |-> FALSE, dt |-> FromOrdinal(n) \o <<dt[4]>>]

\* mutant: the year is never replaced, 365 * years days are always added
AddYears_days_only(dt, years) == AddDays(dt, 365 * years)

\* the add_years step: dt.replace(year=dt.year + years), and on ValueError
\* dt + timedelta(days=365 * years)
AddYears(dt, years) ==
    IF ValidDate(dt[1] + years, dt[2], dt[3])
    THEN [err |-> FALSE, dt |-> <<dt[1] + years, dt[2], dt[3], dt[4]>>]
    ELSE AddDays(dt, 365 * years)

\* text.replace("Z", "+00:00")
RECURSIVE ReplaceZ(_)
ReplaceZ(text) ==
    IF text = <<>> THEN <<>>
    ELSE IF Head(text) = "Z"
         THEN <<"+", "0", "0", ":", "0", "0">> \o ReplaceZ(Tail(text))
         ELSE <<Head(text)>> \o ReplaceZ(Tail(text))

\* datetime.fromisoformat(text) for the forms YYYY-MM-DD and
\* YYYY-MM-DD?HH:MM:SS; ok = FALSE stands for ValueError
FromIso(text) ==
    LET num(a, b) == DigitsNat(SubSeq(text, a, b))
        digitsAt(S) == \A i \in S : IsDigit(text[i])
        dateOk == /\ Len(text) >= 10
                  /\ digitsAt({1, 2, 3, 4, 6, 7, 9, 10})
                  /\ text[5] = "-" /\ text[8] = "-"
                  /\ ValidDate(num(1, 4), num(6, 7), num(9, 10))
        timeOk == /\ Len(text) = 19
                  /\ digitsAt({12, 13, 15, 16, 18, 19})
                  /\ text[14] = ":" /\ text[17] = ":"
                  /\ num(12, 13) < 24 /\ num(15, 16) < 60 /\ num(18, 19) < 60
    IN  IF dateOk /\ Len(text) = 10
        THEN [ok |-> TRUE, dt |-> <<num(1, 4), num(6, 7), num(9, 10), 0>>]
        ELSE IF dateOk /\ timeOk
        THEN [ok |-> TRUE,
              dt |-> <<num(1, 4), num(6, 7), num(9, 10),
                       num(12, 13) * 3600 + num(15, 16) * 60 + num(18, 19)>>]
        ELSE [ok |-> FALSE, dt |-> <<>>]

----------------------------------------------------------------------------
(* DateStrategy (app/core/strategies/date_std.py) *)

kw_iso == <<"i", "s", "o">>

kw_short == <<"s", "h", "o", "r", "t">>

kw_medium == <<"m", "e", "d", "i", "u", "m">>

kw_long == <<"l", "o", "n", "g">>

kw_full == <<"f", "u", "l", "l">>

kw_fmt == <<"f", "m", "t">>

kw_year == <<"y", "e", "a", "r">>

kw_month_name == <<"m", "o", "n", "t", "h", "_", "n", "a", "m", "e">>

kw_add_days == <<"a", "d", "d", "_", "d", "a", "y", "s">>

kw_add_years == <<"a", "d", "d", "_", "y", "e", "a", "r", "s">>

\* the locale identifiers babel resolves, among the tokens the calls are given
KnownLocales == {<<"p", "t">>, <<"e", "n">>}

\* DateStrategy._is_int(val)
_is_int(val) == ParseInt(val).ok

\* The while-loop of process from cursor i: formatted_result is a datetime value
\* or text, format_applied the flag, seen the positions executed as keywords.
\* err = TRUE when an exception left the loop.
\* mutant: an arithmetic keyword that is not applied takes its argument with it
DateSkip_consume(has_arg) == IF has_arg THEN 2 ELSE 1

\* "i += 1" after an arithmetic keyword whose condition failed: the keyword
\* alone is passed, its argument is the next keyword
DateSkip(has_arg) == 1

RECURSIVE DateLoop(_, _, _, _, _)
DateLoop(ops, i, formatted_result, format_applied, seen) ==
    IF i > Len(ops)
    THEN [err |-> FALSE, formatted_result |-> formatted_result,
          format_applied |-> format_applied, seen |-> seen]
    ELSE
      LET op == Strip(Lower(ops[i]))
          has_next == i + 1 <= Len(ops) /\ ops[i + 1] # <<>>
          is_dt == formatted_result.k = "datetime"
          dt == formatted_result.v
          here == seen \cup {i}
          skip == DateLoop(ops, i + 1, formatted_result, format_applied, here)
          pass == DateLoop(ops, i + DateSkip(has_next /\ _is_int(ops[i + 1])),
                           formatted_result, format_applied, here)
          becomes(text, step) == DateLoop(ops, i + step, PyStr(text), TRUE, here)
          raised == [err |-> TRUE, formatted_result |-> formatted_result,
                     format_applied |-> format_applied, seen |-> here]
      IN  IF op = kw_iso
          THEN IF is_dt THEN becomes(DateIso(dt), 1) ELSE skip
          ELSE IF op \in {kw_short, kw_medium, kw_long, kw_full}
          THEN IF has_next /\ is_dt /\ Strip(StripQuotes(ops[i + 1])) \in KnownLocales
               THEN becomes(Opaque("babel.dates.format_date",
                                   DateIso(dt) \o <<",">> \o op \o <<",">>
                                       \o Strip(StripQuotes(ops[i + 1]))).v, 2)
               ELSE skip
          ELSE IF op = kw_fmt
          THEN IF has_next /\ is_dt
               THEN becomes(Strftime(dt, StripQuotes(ops[i + 1])), 2)
               ELSE skip
          ELSE IF op = kw_year
          THEN IF is_dt THEN becomes(NatDigits(dt[1]), 1) ELSE skip
          ELSE IF op = kw_month_name
          THEN IF has_next /\ is_dt /\ Strip(StripQuotes(ops[i + 1])) \in KnownLocales
               THEN becomes(Opaque("babel.dates.format_date.title",
                                   DateIso(dt) \o <<",", "M", "M", "M", "M", ",">>
                                       \o Strip(StripQuotes(ops[i + 1]))).v, 2)
               ELSE skip
          ELSE IF op = kw_add_days
          THEN IF has_next /\ _is_int(ops[i + 1]) /\ is_dt
               THEN LET r == AddDays(dt, ParseInt(ops[i + 1]).n)
                    IN  IF r.err THEN raised
                        ELSE DateLoop(ops, i + 2, [k |-> "datetime", v |-> r.dt],
                                      format_applied, here)
               ELSE pass
          ELSE IF op = kw_add_years
          THEN IF has_next /\ _is_int(ops[i + 1]) /\ is_dt
               THEN LET r == AddYears(dt, ParseInt(ops[i + 1]).n)
                    IN  IF r.err THEN raised
                        ELSE DateLoop(ops, i + 2, [k |-> "datetime", v |-> r.dt],
                                      format_applied, here)
               ELSE pass
          ELSE skip

\* step 1 of process: the datetime the value normalizes to (ok = FALSE: unparsable)
DateNormalize(value) ==
    IF value.k = "datetime" THEN [ok |-> TRUE, dt |-> value.v]
    ELSE FromIso(ReplaceZ(Str(value)))

DateRun(value, ops) ==
    DateLoop(ops, 1, [k |-> "datetime", v |-> DateNormalize(value).dt], FALSE, {})

\* mutant: the final clean-up is skipped, the running value is stringified as it is
DateFinal_no_cleanup(formatted_result, format_applied) == PyStr(Str(formatted_result))

\* step 3 of process, "Final Clean-up"
DateFinal(formatted_result, format_applied) ==
    IF formatted_result.k = "datetime" /\ ~format_applied
    THEN PyStr(DateIso(formatted_result.v))
    ELSE PyStr(Str(formatted_result))

\* DateStrategy.process(value, ops)
DateStrategy_process(value, ops) ==
    IF value = PyNone \/ Strip(Str(value)) = <<>> THEN EmptyStr
    ELSE IF ~DateNormalize(value).ok THEN PyStr(Str(value))
    ELSE LET r == DateRun(value, ops)
         IN  IF r.err THEN PyStr(Str(value))
             ELSE DateFinal(r.formatted_result, r.format_applied)

----------------------------------------------------------------------------
(* MaskStrategy (app/core/strategies/mask_std.py) *)

kw_mask == t_mask

kw_email == <<"e", "m", "a", "i", "l">>

kw_credit_card == <<"c", "r", "e", "d", "i", "t", "_", "c", "a", "r", "d">>

kw_name == <<"n", "a", "m", "e">>

\* MaskStrategy._apply_generic_mask(value, pattern)
_apply_generic_mask(value, pattern) == MaskLoop(AlnumOnly(value), pattern, 1, 0)

\* MaskStrategy._mask_email(email)
_mask_email(email) ==
    IF "@" \notin Range(email) THEN email
    ELSE LET at == Find(email, "@")
             user == SubSeq(email, 1, at - 1)
             domain == SubSeq(email, at + 1, Len(email))
             masked_user == IF Len(user) > 1 THEN <<user[1], "*", "*", "*">> ELSE user
         IN  masked_user \o <<"@">> \o domain

DigitsOnly(text) == Filter(text, {c \in Range(text) : IsDigit(c)})

\* mutant: the first four digits are kept instead of the last four
_mask_credit_card_first_four(cc) ==
    LET clean == DigitsOnly(cc)
    IN  IF Len(clean) < 4 THEN cc
        ELSE <<"*", "*", "*", "*", " ", "*", "*", "*", "*", " ", "*", "*", "*", "*", " ">>
                 \o SubSeq(clean, 1, 4)

\* MaskStrategy._mask_credit_card(cc)
_mask_credit_card(cc) ==
    LET clean == DigitsOnly(cc)
    IN  IF Len(clean) < 4 THEN cc
        ELSE <<"*", "*", "*", "*", " ", "*", "*", "*", "*", " ", "*", "*", "*", "*", " ">>
                 \o SubSeq(clean, Len(clean) - 3, Len(clean))

\* text.split(): the maximal runs of non-whitespace characters
RECURSIVE Words(_)
Words(text) ==
    LET t == Strip(text)
        ws == {i \in 1..Len(t) : t[i] \in WhiteSpace}
    IN  IF t = <<>> THEN <<>>
        ELSE IF ws = {} THEN <<t>>
        ELSE LET first == CHOOSE i \in ws : \A j \in ws : i <= j
             IN  <<SubSeq(t, 1, first - 1)>> \o Words(SubSeq(t, first + 1, Len(t)))

\* MaskStrategy._mask_name(name)
_mask_name(name) ==
    LET parts == Words(name)
        masked == [i \in 1..Len(parts) |->
                      IF Len(parts[i]) > 1
                      THEN <<parts[i][1]>> \o [j \in 1..(Len(parts[i]) - 1) |-> "*"]
                      ELSE parts[i]]
    IN  Join(masked, " ")

\* the for-loop of MaskStrategy.process over iter(ops), from position i
RECURSIVE MaskScan(_, _, _, _)
MaskScan(ops, i, text, seen) ==
    IF i > Len(ops) THEN [text |-> text, seen |-> seen]
    ELSE LET op == Strip(Lower(ops[i]))
             here == seen \cup {i}
         IN  IF op = kw_mask
             THEN IF i + 1 > Len(ops)
                  THEN [text |-> text, seen |-> here]
                  ELSE MaskScan(ops, i + 2, _apply_generic_mask(text, ops[i + 1]), here)
             ELSE IF op = kw_email THEN MaskScan(ops, i + 1, _mask_email(text), here)
             ELSE IF op = kw_credit_card
             THEN MaskScan(ops, i + 1, _mask_credit_card(text), here)
             ELSE IF op = kw_name THEN MaskScan(ops, i + 1, _mask_name(text), here)
             ELSE MaskScan(ops, i + 1, text, here)

\* MaskStrategy.process(value, ops)
MaskStrategy_process(value, ops) ==
    IF value = PyNone THEN EmptyStr
    ELSE PyStr(MaskScan(ops, 1, Str(value), {}).text)

----------------------------------------------------------------------------
(* StringStrategy (app/core/strategies/string_std.py) *)

kw_upper == <<"u", "p", "p", "e", "r">>

kw_lower == <<"l", "o", "w", "e", "r">>

kw_title == <<"t", "i", "t", "l", "e">>

kw_capitalize == <<"c", "a", "p", "i", "t", "a", "l", "i", "z", "e">>

kw_swapcase == <<"s", "w", "a", "p", "c", "a", "s", "e">>

kw_trim == <<"t", "r", "i", "m">>

kw_reverse == <<"r", "e", "v", "e", "r", "s", "e">>

kw_prefix == <<"p", "r", "e", "f", "i", "x">>

kw_suffix == <<"s", "u", "f", "f", "i", "x">>

kw_truncate == <<"t", "r", "u", "n", "c", "a", "t", "e">>

kw_snake == <<"s", "n", "a", "k", "e">>

kw_kebab == <<"k", "e", "b", "a", "b">>

kw_slug == <<"s", "l", "u", "g">>

\* str.capitalize(), str.swapcase(), text[::-1]
Capitalize(s) == [i \in 1..Len(s) |-> IF i = 1 THEN UpperChar(s[i]) ELSE LowerChar(s[i])]

SwapCase(s) ==
    [i \in 1..Len(s) |-> IF s[i] \in Range(UpperAlpha) THEN LowerChar(s[i]) ELSE UpperChar(s[i])]

Reverse(s) == [i \in 1..Len(s) |-> s[Len(s) + 1 - i]]

\* re.sub("[set]+", repl, text): every maximal run of characters of set becomes repl
RECURSIVE SubRuns(_, _, _)
SubRuns(text, set, repl) ==
    IF text = <<>> THEN <<>>
    ELSE IF Head(text) \in set
         THEN IF Len(text) > 1 /\ text[2] \in set
              THEN SubRuns(Tail(text), set, repl)
              ELSE <<repl>> \o SubRuns(Tail(text), set, repl)
         ELSE <<Head(text)>> \o SubRuns(Tail(text), set, repl)

\* text[:limit]
SliceTo(text, limit) ==
    IF limit >= 0 THEN SubSeq(text, 1, IF limit < Len(text) THEN limit ELSE Len(text))
    ELSE SubSeq(text, 1, IF Len(text) + limit > 0 THEN Len(text) + limit ELSE 0)

\* mutant: a text as long as the limit is cut too
Truncate_at_limit(text, limit) ==
    IF Len(text) >= limit THEN SliceTo(text, limit) \o <<".", ".", ".">> ELSE text

\* the truncate step: if len(text) > limit: text = text[:limit] + "..."
Truncate(text, limit) ==
    IF Len(text) > limit THEN SliceTo(text, limit) \o <<".", ".", ".">> ELSE text

\* the for-loop of StringStrategy.process over iter(ops), from position i
RECURSIVE StringScan(_, _, _, _)
StringScan(ops, i, text, seen) ==
    IF i > Len(ops) THEN [text |-> text, seen |-> seen]
    ELSE
      LET op == Strip(Lower(ops[i]))
          here == seen \cup {i}
          apply(t) == StringScan(ops, i + 1, t, here)
          stop == [text |-> text, seen |-> here]
      IN  CASE op = kw_upper -> apply(Upper(text))
            [] op = kw_lower -> apply(Lower(text))
            [] op = kw_title -> apply(Title(text))
            [] op = kw_capitalize -> apply(Capitalize(text))
            [] op = kw_swapcase -> apply(SwapCase(text))
            [] op = kw_trim -> apply(Strip(text))
            [] op = kw_reverse -> apply(Reverse(text))
            [] op = kw_prefix ->
                 IF i + 1 > Len(ops) THEN stop
                 ELSE StringScan(ops, i + 2, RemoveChars(ops[i + 1], {"\""}) \o text, here)
            [] op = kw_suffix ->
                 IF i + 1 > Len(ops) THEN stop
                 ELSE StringScan(ops, i + 2, text \o RemoveChars(ops[i + 1], {"\""}), here)
            [] op = kw_truncate ->
                 IF i + 1 > Len(ops) THEN stop
                 ELSE IF ~ParseInt(ops[i + 1]).ok THEN StringScan(ops, i + 2, text, here)
                 ELSE StringScan(ops, i + 2, Truncate(text, ParseInt(ops[i + 1]).n), here)
            [] op = kw_snake -> apply(Lower(SubRuns(text, WhiteSpace \cup {"-"}, "_")))
            [] op = kw_kebab -> apply(Lower(SubRuns(text, WhiteSpace \cup {"_"}, "-")))
            [] op = kw_slug ->
                 apply(SubRuns(Lower(Filter(text, {c \in Range(text) :
                                   IsAlnum(c) \/ c \in WhiteSpace \/ c = "-"})),
                               WhiteSpace, "-"))
            [] OTHER -> apply(text)

\* mutant: the text is trimmed before it is returned
StringStrategy_process_trimmed(value, ops) ==
    IF value = PyNone THEN EmptyStr
    ELSE PyStr(Strip(StringScan(ops, 1, Str(value), {}).text))

\* StringStrategy.process(value, ops)
StringStrategy_process(value, ops) ==
    IF value = PyNone THEN EmptyStr
    ELSE PyStr(StringScan(ops, 1, Str(value), {}).text)

----------------------------------------------------------------------------
(* NumberStrategy (app/core/strategies/number_std.py) *)

\* a raised exception as the outcome of a call
PyRaise(name) == [k |-> "raise", v |-> name]

RECURSIVE Lowest(_, _)
Lowest(m, scale) ==
    IF scale > 0 /\ m % 10 = 0 THEN Lowest(m \div 10, scale - 1) ELSE PyDecimal(m, scale)

Count(text, c) == Cardinality({i \in 1..Len(text) : text[i] = c})

\* float(text) for text of whitespace, sign, decimal digits and ".", and for
\* the spellings of infinity: the value, or ValueError (exponents, underscores
\* and nan are not among the inputs)
ParseFloat(text) ==
    LET t == Strip(text)
        signed == t # <<>> /\ t[1] \in {"+", "-"}
        body == IF signed THEN Tail(t) ELSE t
        digits == RemoveChars(body, {"."})
        point == Find(body, ".")
        scale == IF point = 0 THEN 0 ELSE Len(body) - point
    IN  IF Lower(body) \in {<<"i", "n", "f">>, <<"i", "n", "f", "i", "n", "i", "t", "y">>}
        THEN PyInfinity(IF signed /\ t[1] = "-" THEN 0 - 1 ELSE 1)
        ELSE IF AllDigits(digits) /\ Count(body, ".") <= 1
        THEN Lowest(IF signed /\ t[1] = "-" THEN 0 - DigitsNat(digits) ELSE DigitsNat(digits),
                    scale)
        ELSE PyRaise("ValueError")

\* mutant: with both separators present the commas are always the ones removed
_normalize_to_float_commas_removed(value) ==
    IF value.k = "int" THEN PyFloat(value.v)
    ELSE IF value.k = "float" THEN value
    ELSE LET str_val == Strip(Str(value))
             comma == "," \in Range(str_val)
             dot == "." \in Range(str_val)
         IN  IF comma /\ ~dot THEN ParseFloat(ReplaceChar(str_val, ",", "."))
             ELSE IF comma /\ dot THEN ParseFloat(RemoveChars(str_val, {","}))
             ELSE ParseFloat(str_val)

\* NumberStrategy._normalize_to_float(value): the float, or the exception float() raises
_normalize_to_float(value) ==
    IF value.k = "int" THEN PyFloat(value.v)
    ELSE IF value.k = "float" THEN value
    ELSE LET str_val == Strip(Str(value))
             comma == "," \in Range(str_val)
             dot == "." \in Range(str_val)
         IN  IF comma /\ ~dot THEN ParseFloat(ReplaceChar(str_val, ",", "."))
             ELSE IF comma /\ dot
             THEN IF Find(str_val, ",") < Find(str_val, ".")
                  THEN ParseFloat(RemoveChars(str_val, {","}))
                  ELSE ParseFloat(ReplaceChar(RemoveChars(str_val, {"."}), ",", "."))
             ELSE ParseFloat(str_val)

kw_int == <<"i", "n", "t">>

kw_pad == <<"p", "a", "d">>

kw_float == <<"f", "l", "o", "a", "t">>

kw_round == <<"r", "o", "u", "n", "d">>

kw_precision == <<"p", "r", "e", "c", "i", "s", "i", "o", "n">>

kw_currency == <<"c", "u", "r", "r", "e", "n", "c", "y">>

kw_percent == <<"p", "e", "r", "c", "e", "n", "t">>

kw_scientific == <<"s", "c", "i", "e", "n", "t", "i", "f", "i", "c">>

kw_humanize == <<"h", "u", "m", "a", "n", "i", "z", "e">>

kw_ordinal == <<"o", "r", "d", "i", "n", "a", "l">>

kw_spell_out == <<"s", "p", "e", "l", "l", "_", "o", "u", "t">>

kw_separator == <<"s", "e", "p", "a", "r", "a", "t", "o", "r">>

\* self.locale of a NumberStrategy()
default_locale == <<"p", "t", "_", "B", "R">>

\* the languages num2words converts to, among the tokens the calls are given;
\* any other lang raises NotImplementedError
Num2WordsLangs == {<<"e", "n">>, <<"p", "t">>, default_locale}

\* the number of leading decimal digits of text
RECURSIVE DigitRun(_)
DigitRun(text) ==
    IF text # <<>> /\ IsDigit(text[1]) THEN 1 + DigitRun(Tail(text)) ELSE 0

\* n copies of the character c
Repeat(c, n) == [i \in 1..n |-> c]

\* int(num_val) of a non-negative float: truncation
NumInt(num) == num.v \div Pow10(num.scale)

\* the digits of n with a point before the last prec of them
FixedText(n, prec) ==
    LET d == ZeroPad(NatDigits(n), prec + 1)
    IN  IF prec = 0 THEN d
        ELSE SubSeq(d, 1, Len(d) - prec) \o <<".">> \o SubSeq(d, Len(d) - prec + 1, Len(d))

\* f"{num:.{prec}f}" of inf ("inf") and of a non-negative float m / 10^scale: exact when
\* prec >= scale, else rounded to nearest, a tie (which the inputs have only
\* at values the float holds exactly) to the even digit
Fixed(num, prec) ==
    IF IsInf(num) THEN Str(num)
    ELSE IF prec >= num.scale
    THEN FixedText(num.v, num.scale)
            \o (IF num.scale = 0 /\ prec > 0 THEN <<".">> ELSE <<>>)
            \o Repeat("0", prec - num.scale)
    ELSE LET t == Pow10(num.scale - prec)
             q == num.v \div t
             r == num.v % t
             up == 2 * r > t \/ (2 * r = t /\ q % 2 = 1)
         IN  FixedText(IF up THEN q + 1 ELSE q, prec)

\* "{:,}".format(n): the digits in groups of three
RECURSIVE Group3(_)
Group3(digits) ==
    IF Len(digits) <= 3 THEN digits
    ELSE Group3(SubSeq(digits, 1, Len(digits) - 3)) \o <<",">>
            \o SubSeq(digits, Len(digits) - 2, Len(digits))

\* the alignment characters of a format spec
FormatAligns == {"<", ">", "^", "="}

\* [[fill]align][0] of a format spec: the fill character, the alignment and the
\* rest of the spec
FormatHead(spec) ==
    IF Len(spec) >= 2 /\ spec[2] \in FormatAligns
    THEN [fill |-> spec[1], align |-> spec[2], rest |-> SubSeq(spec, 3, Len(spec))]
    ELSE IF Len(spec) >= 1 /\ spec[1] \in FormatAligns
    THEN IF Len(spec) >= 2 /\ spec[2] = "0"
         THEN [fill |-> "0", align |-> spec[1], rest |-> SubSeq(spec, 3, Len(spec))]
         ELSE [fill |-> " ", align |-> spec[1], rest |-> Tail(spec)]
    ELSE IF spec # <<>> /\ spec[1] = "0"
    THEN [fill |-> "0", align |-> "=", rest |-> Tail(spec)]
    ELSE [fill |-> " ", align |-> ">", rest |-> spec]

\* [width][.precision][type] after the head: has_point tells a precision is
\* given, plen is the number of its digits
FormatFields(head) ==
    LET wlen == DigitRun(head.rest)
        r2 == SubSeq(head.rest, wlen + 1, Len(head.rest))
        has_point == r2 # <<>> /\ r2[1] = "."
        plen == IF has_point THEN DigitRun(Tail(r2)) ELSE 0
    IN  [fill |-> head.fill, align |-> head.align,
         width |-> DigitsNat(SubSeq(head.rest, 1, wlen)),
         has_point |-> has_point, plen |-> plen,
         prec |-> IF has_point THEN DigitsNat(SubSeq(r2, 2, plen + 1)) ELSE 6,
         type |-> IF has_point THEN SubSeq(r2, plen + 2, Len(r2)) ELSE r2]

\* the text padded with the fill character to the width
FormatPad(body, fill, align, width) ==
    LET room == IF width > Len(body) THEN width - Len(body) ELSE 0
        left == CASE align = "<" -> 0
                  [] align = "^" -> room \div 2
                  [] OTHER -> room
    IN  Repeat(fill, left) \o body \o Repeat(fill, room - left)

\* format(x, spec) with the fields of the spec
FormatWith(num, is_int, f) ==
    IF /\ ~(f.has_point /\ f.plen = 0)
       /\ IF is_int THEN f.type = <<"f">> \/ (f.type \in {<<>>, <<"d">>} /\ ~f.has_point)
          ELSE f.type = <<"f">> \/ (f.type = <<>> /\ ~f.has_point)
    THEN [ok |-> TRUE,
          s |-> FormatPad(IF f.type = <<"f">>
                          THEN Fixed(IF is_int THEN PyFloat(num.v) ELSE num, f.prec)
                          ELSE IF is_int THEN NatDigits(num.v) ELSE Str(num),
                          f.fill, f.align, f.width)]
    ELSE [ok |-> FALSE, s |-> <<>>]

\* format(x, spec) of a non-negative number, x an int (is_int) or a float, for
\* the specs [[fill]align][0][width][.precision][type] with type d, f or none;
\* ok = FALSE stands for ValueError, which every text that is no format spec raises
PyFormat(num, is_int, spec) == FormatWith(num, is_int, FormatFields(FormatHead(spec)))

\* NumberStrategy._is_format_spec(token)
_is_format_spec(token) ==
    IF token = <<>> THEN FALSE
    ELSE IsDigit(token[1]) \/ token[1] = "." \/ token \in {<<">">>, <<"<">>, <<"^">>}

\* the number of divisions by 1000 of _humanize_number: while abs(value) >= 1000
\* and label_idx < len(labels) - 1
RECURSIVE HumanizeSteps(_, _)
HumanizeSteps(whole, label_idx) ==
    IF whole >= 1000 /\ label_idx < 4 THEN HumanizeSteps(whole \div 1000, label_idx + 1)
    ELSE label_idx

\* NumberStrategy._humanize_number(value) of a non-negative float; inf stays
\* inf through the four divisions
_humanize_number(value) ==
    IF IsInf(value) THEN PyStr(Str(value) \o <<"T">>)
    ELSE
    LET labels == <<<<>>, <<"K">>, <<"M">>, <<"B">>, <<"T">>>>
        label_idx == HumanizeSteps(NumInt(value), 0)
        res == Fixed(PyDecimal(value.v, value.scale + 3 * label_idx), 1)
        trimmed == IF SubSeq(res, Len(res) - 1, Len(res)) = <<".", "0">>
                   THEN SubSeq(res, 1, Len(res) - 2) ELSE res
    IN  PyStr(trimmed \o labels[label_idx + 1])

\* the text of the float an external library is handed
NumArg(num) == IF num.scale = 0 THEN IntStr(num.v) ELSE Str(num)

\* int(num_val): the int, or OverflowError for inf
NumberInt(num_val) ==
    IF IsInf(num_val) THEN PyRaise("OverflowError") ELSE PyInt(NumInt(num_val))

\* mutant: float without a precision leaves the running result as it is
FloatReset_keep(num_val, formatted_result) == formatted_result

\* "formatted_result = num_val" of the float branch
FloatReset(num_val, formatted_result) == num_val

\* The libraries raise on inf (babel quantizes a Decimal, num2words takes
\* int(value)): the branch then keeps the result, or takes its own fallback.
\* The while-loop of NumberStrategy.process from cursor i: formatted_result is
\* the float or text so far, seen the positions executed as operation keywords
\* (the other positions below the cursor were consumed as arguments).
RECURSIVE NumberLoop(_, _, _, _, _)
NumberLoop(ops, i, num_val, formatted_result, seen) ==
    IF i > Len(ops) THEN [result |-> formatted_result, seen |-> seen]
    ELSE
      LET op == Strip(Lower(ops[i]))
          has_next == i + 1 <= Len(ops) /\ ops[i + 1] # <<>>
          next_token == IF i + 1 <= Len(ops) THEN ops[i + 1] ELSE <<>>
          int_val == NumberInt(num_val)
          step(result, consume) ==
              NumberLoop(ops, i + (IF consume THEN 2 ELSE 1), num_val, result,
                         seen \cup {i})
      IN  CASE op = kw_int ->
                 IF int_val.k = "raise" THEN step(formatted_result, FALSE)
                 ELSE IF has_next /\ _is_format_spec(next_token)
                 THEN IF PyFormat(int_val, TRUE, next_token).ok
                      THEN step(PyStr(PyFormat(int_val, TRUE, next_token).s), TRUE)
                      ELSE step(PyStr(Str(int_val)), FALSE)
                 ELSE step(PyStr(Str(int_val)), FALSE)
            [] op \in {kw_fmt, kw_pad} ->
                 IF has_next /\ PyFormat(num_val, FALSE, next_token).ok
                 THEN step(PyStr(PyFormat(num_val, FALSE, next_token).s), TRUE)
                 ELSE step(formatted_result, FALSE)
            [] op = kw_float ->
                 IF has_next /\ AllDigits(next_token)
                 THEN step(PyStr(Fixed(num_val, DigitsNat(next_token))), TRUE)
                 ELSE step(FloatReset(num_val, formatted_result), FALSE)
            [] op \in {kw_round, kw_precision} ->
                 IF has_next /\ AllDigits(next_token)
                 THEN step(PyStr(Fixed(num_val, DigitsNat(next_token))), TRUE)
                 ELSE step(formatted_result, FALSE)
            [] op = kw_currency ->
                 IF has_next /\ Len(next_token) = 3 /\ \A c \in Range(next_token) : IsAlpha(c)
                 THEN step(IF IsInf(num_val) THEN formatted_result
                           ELSE Opaque("babel.numbers.format_currency",
                                       NumArg(num_val) \o <<",">> \o Upper(next_token)), TRUE)
                 ELSE step(IF IsInf(num_val) THEN formatted_result
                           ELSE Opaque("babel.numbers.format_currency",
                                       NumArg(num_val) \o <<",", "B", "R", "L">>), FALSE)
            [] op = kw_percent ->
                 step(IF IsInf(num_val) THEN PyStr(Str(num_val) \o <<"%">>)
                      ELSE Opaque("babel.numbers.format_percent", NumArg(num_val)), FALSE)
            [] op = kw_scientific ->
                 step(IF IsInf(num_val) THEN PyStr(Upper(Str(num_val)))
                      ELSE Opaque("babel.numbers.format_scientific", NumArg(num_val)), FALSE)
            [] op = kw_humanize -> step(_humanize_number(num_val), FALSE)
            [] op = kw_ordinal ->
                 IF int_val.k = "raise"
                 THEN [result |-> int_val, seen |-> seen \cup {i}]
                 ELSE IF num_val.scale = 0 /\ default_locale \in Num2WordsLangs
                 THEN step(Opaque("num2words.ordinal_num",
                                  NumArg(num_val) \o <<",">> \o default_locale), FALSE)
                 ELSE step(PyStr(Str(int_val) \o <<"t", "h">>), FALSE)
            [] op = kw_spell_out ->
                 LET consume == has_next /\ Len(next_token) = 2
                     lang == IF consume THEN next_token ELSE default_locale
                 IN  IF lang \in Num2WordsLangs /\ ~IsInf(num_val)
                     THEN step(Opaque("num2words.cardinal",
                                      NumArg(num_val) \o <<",">> \o lang), consume)
                     ELSE step(formatted_result, consume)
            [] op = kw_separator ->
                 IF has_next
                 THEN LET val_str == Fixed(num_val, 2)
                          point == Find(val_str, ".")
                          integer == Group3(SubSeq(val_str, 1, point - 1))
                          fraction == SubSeq(val_str, point + 1, Len(val_str))
                      IN  IF IsInf(num_val)
                          THEN step(IF next_token = <<",", ".">> THEN PyStr(val_str)
                                    ELSE formatted_result, TRUE)
                          ELSE IF next_token = <<".", ",">>
                          THEN step(PyStr(ReplaceChar(integer, ",", ".") \o <<",">>
                                              \o fraction), TRUE)
                          ELSE IF next_token = <<",", ".">>
                          THEN step(PyStr(integer \o <<".">> \o fraction), TRUE)
                          ELSE step(formatted_result, TRUE)
                 ELSE step(formatted_result, FALSE)
            [] OTHER -> step(formatted_result, FALSE)

\* "return str(formatted_result)" after the loop, and "return str(value)" when
\* an exception left the loop
NumberDone(value, run) ==
    [result |-> PyStr(Str(IF run.result.k = "raise" THEN value ELSE run.result)),
     seen |-> run.seen, looped |-> TRUE]

\* the pipeline on the normalized value, or str(value) when it is not a number
NumberFrom(value, ops, num_val) ==
    IF num_val.k = "raise"
    THEN [result |-> PyStr(Str(value)), seen |-> {}, looped |-> FALSE]
    ELSE NumberDone(value, NumberLoop(ops, 1, num_val, num_val, {}))

\* NumberStrategy.process(value, ops) with the positions the loop executed as
\* keywords; no position is visited when the value is empty or is not a number
NumberRun(value, ops) ==
    IF value = PyNone \/ Strip(Str(value)) = <<>>
    THEN [result |-> EmptyStr, seen |-> {}, looped |-> FALSE]
    ELSE NumberFrom(value, ops, _normalize_to_float(value))

\* NumberStrategy.process(value, ops)
NumberStrategy_process(value, ops) == NumberRun(value, ops).result

----------------------------------------------------------------------------
(* BooleanStrategy (app/core/strategies/boolean_std.py) *)

PyBool(b) == [k |-> "bool", v |-> b]

kw_bool == <<"b", "o", "o", "l">>

kw_check == <<"c", "h", "e", "c", "k">>

\* the ballot box characters, each written as the name of its code point
glyph_checked == <<"U+2611">>

glyph_unchecked == <<"U+2610">>

TruthyTexts ==
    {<<"t", "r", "u", "e">>, <<"t">>, <<"y", "e", "s">>, <<"y">>, <<"1">>, <<"s">>,
     <<"s", "i", "m">>, <<"o", "n">>}

\* str(bool_val)
BoolStr(b) == IF b THEN <<"T", "r", "u", "e">> ELSE <<"F", "a", "l", "s", "e">>

\* mutant: every integer other than 0 is true
BooleanNormalize_nonzero(value) ==
    CASE value.k = "bool" -> value.v
      [] value.k = "int" -> value.v # 0
      [] value.k = "str" -> Lower(Strip(value.v)) \in TruthyTexts
      [] OTHER -> FALSE

\* step 1 of process, "Normalize Input to Boolean"
BooleanNormalize(value) ==
    CASE value.k = "bool" -> value.v
      [] value.k = "int" -> value.v = 1
      [] value.k = "str" -> Lower(Strip(value.v)) \in TruthyTexts
      [] OTHER -> FALSE

\* mutant: bool without its two arguments returns the keyword itself
BoolNoArgs_keyword(bool_val) == kw_bool

\* "No args provided, return standard string"
BoolNoArgs(bool_val) == BoolStr(bool_val)

\* The for-loop over iter(ops) from position i: returned = TRUE when a return
\* statement inside the loop fired, seen the positions executed as keywords.
RECURSIVE BooleanScan(_, _, _, _)
BooleanScan(ops, i, bool_val, seen) ==
    IF i > Len(ops) THEN [returned |-> FALSE, value |-> BoolStr(bool_val), seen |-> seen]
    ELSE LET op == Strip(Lower(ops[i]))
             here == seen \cup {i}
         IN  CASE op = kw_bool ->
                    IF i + 2 <= Len(ops)
                    THEN [returned |-> TRUE,
                          value |-> IF bool_val THEN ops[i + 1] ELSE ops[i + 2],
                          seen |-> here]
                    ELSE [returned |-> TRUE, value |-> BoolNoArgs(bool_val), seen |-> here]
               [] op = kw_check ->
                    [returned |-> TRUE,
                     value |-> IF bool_val THEN glyph_checked ELSE glyph_unchecked,
                     seen |-> here]
               [] OTHER -> BooleanScan(ops, i + 1, bool_val, here)

BooleanRun(value, ops) == BooleanScan(ops, 1, BooleanNormalize(value), {})

\* BooleanStrategy.process(value, ops)
BooleanStrategy_process(value, ops) == PyStr(BooleanRun(value, ops).value)

----------------------------------------------------------------------------
(* TemplateValidator (app/core/validator.py) *)

IsNameChar(c) == IsAlnum(c) \/ c = "_"

\* the least element of a non-empty set of integers
Least(S) == CHOOSE x \in S : \A y \in S : x <= y

\* tag_pattern.findall(text) from position i on: \{\{\s*([a-zA-Z0-9_]+).*?\}\}
RECURSIVE TagScan(_, _)
TagScan(text, i) ==
    IF i + 1 > Len(text) THEN {}
    ELSE IF text[i] = "{" /\ text[i + 1] = "{"
    THEN LET j == Least({p \in (i + 2)..(Len(text) + 1) :
                            p = Len(text) + 1 \/ text[p] \notin WhiteSpace})
             k == Least({p \in j..(Len(text) + 1) :
                            p = Len(text) + 1 \/ ~IsNameChar(text[p])})
             close == {p \in k..(Len(text) - 1) :
                          /\ text[p] = "}" /\ text[p + 1] = "}"
                          /\ \A r \in k..(p - 1) : text[r] # "\n"}
         IN  IF k > j /\ close # {}
             THEN {SubSeq(text, j, k - 1)} \cup TagScan(text, Least(close) + 2)
             ELSE TagScan(text, i + 1)
    ELSE TagScan(text, i + 1)

\* TemplateValidator._extract_from_text(text)
_extract_from_text(text) == IF text = <<>> THEN {} ELSE TagScan(text, 1)

\* "".join(run.text for run in paragraph.runs), also paragraph.text
RECURSIVE Concat(_)
Concat(runs) == IF runs = <<>> THEN <<>> ELSE Head(runs) \o Concat(Tail(runs))

\* A template file is [readable, paragraphs, cells]: whether the library opens
\* it, the paragraphs it visits (each a sequence of run texts) and the texts of
\* the table cells.

\* TemplateValidator.extract_tags_from_docx(file_path)
extract_tags_from_docx(file) ==
    IF ~file.readable THEN {}
    ELSE UNION {_extract_from_text(Concat(file.paragraphs[i])) : i \in 1..Len(file.paragraphs)}
             \cup UNION {_extract_from_text(file.cells[i]) : i \in 1..Len(file.cells)}

\* the paragraph loop of extract_tags_from_pptx: tags after paragraph i
RECURSIVE PptxParagraphs(_, _)
PptxParagraphs(paragraphs, i) ==
    IF i = 0 THEN {}
    ELSE LET before == PptxParagraphs(paragraphs, i - 1)
             tags == before \cup _extract_from_text(Concat(paragraphs[i]))
         IN  IF tags = {} THEN tags \cup _extract_from_text(Concat(paragraphs[i])) ELSE tags

\* TemplateValidator.extract_tags_from_pptx(file_path)
extract_tags_from_pptx(file) ==
    IF ~file.readable THEN {}
    ELSE PptxParagraphs(file.paragraphs, Len(file.paragraphs))
             \cup UNION {_extract_from_text(file.cells[i]) : i \in 1..Len(file.cells)}

\* os.path.splitext(filename)[1].lower() of a file name without directories
Ext(filename) ==
    LET dots == {i \in 1..Len(filename) : filename[i] = "."}
        last == CHOOSE i \in dots : \A j \in dots : j <= i
    IN  IF dots = {} \/ \A i \in 1..(last - 1) : filename[i] = "." THEN <<>>
        ELSE Lower(SubSeq(filename, last, Len(filename)))

ext_docx == <<".", "d", "o", "c", "x">>

ext_pptx == <<".", "p", "p", "t", "x">>

status_ok == <<"O", "K">>

status_missing == <<"M", "i", "s", "s", "i", "n", "g", " ", "D", "a", "t", "a">>

\* mutant: the headers are compared as given, untrimmed
available_vars_untrimmed(excel_headers) ==
    {excel_headers[i] : i \in 1..Len(excel_headers)}

\* available_vars = set(str(h).strip() for h in excel_headers)
available_vars(excel_headers) ==
    {Strip(excel_headers[i]) : i \in 1..Len(excel_headers)}

\* mutant: a file of any other extension is read as a Word document
ReportEntry_any_extension(filename, file, available) ==
    LET required_vars == IF Ext(filename) = ext_pptx THEN extract_tags_from_pptx(file)
                         ELSE extract_tags_from_docx(file)
        missing_in_excel == required_vars \ available
    IN  [template |-> filename,
         status |-> IF missing_in_excel # {} THEN status_missing ELSE status_ok,
         missing_vars |-> missing_in_excel,
         matched_vars |-> required_vars \cap available]

\* the body of the loop of compare for one item of templates_map
ReportEntry(filename, file, available) ==
    LET ext == Ext(filename)
        required_vars == IF ext = ext_docx THEN extract_tags_from_docx(file)
                         ELSE IF ext = ext_pptx THEN extract_tags_from_pptx(file)
                         ELSE {}
        missing_in_excel == required_vars \ available
    IN  [template |-> filename,
         status |-> IF missing_in_excel # {} THEN status_missing ELSE status_ok,
         missing_vars |-> missing_in_excel,
         matched_vars |-> required_vars \cap available]

\* TemplateValidator.compare(excel_headers, templates_map); templates_map is the
\* sequence of its items <<filename, file>> in insertion order
compare(excel_headers, templates_map) ==
    LET available == available_vars(excel_headers)
        validation_report ==
            [i \in 1..Len(templates_map) |->
                ReportEntry(templates_map[i][1], templates_map[i][2], available)]
    IN  [overall_valid |-> \A i \in 1..Len(validation_report) :
                               validation_report[i].missing_vars = {},
         details |-> validation_report]

----------------------------------------------------------------------------
(* DocumentEngine (app/core/engine.py): the inline tags of slide text *)

\* the first position from i on whose character is not in chars, Len + 1 if none
SkipChars(text, i, chars) ==
    Least({p \in i..(Len(text) + 1) : p = Len(text) + 1 \/ text[p] \notin chars})

\* text.strip(chars) of a set of characters
StripSet(text, chars) ==
    LET keep == {i \in 1..Len(text) : text[i] \notin chars}
    IN  IF keep = {} THEN <<>>
        ELSE SubSeq(text, Least(keep), CHOOSE i \in keep : \A j \in keep : i >= j)

\* pattern.match at position i: \{\{\s*([a-zA-Z0-9_]+)(\s*\|.*?)?\s*\}\}
\* ok, group 1 as var_name, group 2 as filter_part (has_filter = FALSE when the
\* group did not take part), and the position after the match
TagMatch(text, i) ==
    LET none == [ok |-> FALSE, var_name |-> <<>>, has_filter |-> FALSE,
                 filter_part |-> <<>>, end |-> i]
        closes(p) == p + 1 <= Len(text) /\ text[p] = "}" /\ text[p + 1] = "}"
        j == SkipChars(text, i + 2, WhiteSpace)
        k == SkipChars(text, j, {c \in Range(text) : IsNameChar(c)})
        w == SkipChars(text, k, WhiteSpace)
        \* the ends of the lazy .*? after the pipe at w: the rest is \s*\}\}
        lazy == {e \in (w + 1)..(Len(text) + 1) :
                    /\ closes(SkipChars(text, e, WhiteSpace))
                    /\ \A r \in (w + 1)..(e - 1) : text[r] # "\n"}
    IN  IF ~(i + 1 <= Len(text) /\ text[i] = "{" /\ text[i + 1] = "{") \/ k = j
        THEN none
        ELSE IF w <= Len(text) /\ text[w] = "|"
        THEN IF lazy = {} THEN none
             ELSE [ok |-> TRUE, var_name |-> SubSeq(text, j, k - 1), has_filter |-> TRUE,
                   filter_part |-> SubSeq(text, k, Least(lazy) - 1),
                   end |-> SkipChars(text, Least(lazy), WhiteSpace) + 2]
        ELSE IF closes(w)
        THEN [ok |-> TRUE, var_name |-> SubSeq(text, j, k - 1), has_filter |-> FALSE,
              filter_part |-> <<>>, end |-> w + 2]
        ELSE none

f_string == <<"f", "o", "r", "m", "a", "t", "_", "s", "t", "r", "i", "n", "g">>

f_number == <<"f", "o", "r", "m", "a", "t", "_", "n", "u", "m", "b", "e", "r">>

f_currency == <<"f", "o", "r", "m", "a", "t", "_", "c", "u", "r", "r", "e", "n", "c", "y">>

f_date == <<"f", "o", "r", "m", "a", "t", "_", "d", "a", "t", "e">>

f_bool == <<"f", "o", "r", "m", "a", "t", "_", "b", "o", "o", "l">>

f_mask == <<"f", "o", "r", "m", "a", "t", "_", "m", "a", "s", "k">>

f_logic == <<"f", "o", "r", "m", "a", "t", "_", "l", "o", "g", "i", "c">>

f_int == <<"f", "o", "r", "m", "a", "t", "_", "i", "n", "t">>

\* strategy_map.get(f_name): the strategy name, <<>> for None
strategy_map(f_name) ==
    CASE f_name = f_string -> <<"s", "t", "r", "i", "n", "g">>
      [] f_name \in {f_number, f_currency} -> <<"n", "u", "m", "b", "e", "r">>
      [] f_name = f_date -> <<"d", "a", "t", "e">>
      [] f_name = f_bool -> <<"b", "o", "o", "l">>
      [] f_name = f_mask -> <<"m", "a", "s", "k">>
      [] f_name = f_logic -> <<"l", "o", "g", "i", "c">>
      [] OTHER -> <<>>

\* the filter clause read by replace_match: f_name, args, strat_key, final_args
FilterCall(filter_part) ==
    LET stripped == Strip(filter_part)
        content == Strip(SubSeq(stripped, SkipChars(stripped, 1, {"|"}), Len(stripped)))
        called == "(" \in Range(content) /\ content[Len(content)] = ")"
        open == Find(content, "(")
        f_name == IF called THEN SubSeq(content, 1, open - 1) ELSE content
        args_raw == IF called THEN SubSeq(content, open + 1, Len(content) - 1) ELSE <<>>
        parts == Split(args_raw, ",")
        args == IF args_raw = <<>> THEN <<>>
                ELSE [n \in 1..Len(parts) |->
                        StripSet(StripSet(Strip(parts[n]), {"'"}), {"\""})]
    IN  [f_name |-> f_name, args |-> args,
         strat_key |-> IF f_name = f_int THEN <<"n", "u", "m", "b", "e", "r">>
                       ELSE strategy_map(f_name),
         final_args |-> IF f_name = f_currency THEN <<kw_currency>> \o args
                        ELSE IF f_name = f_int THEN <<kw_int>> \o args
                        ELSE args]

\* self.formatter._apply_strategy(strat_key, value, *final_args): DataFormatter
\* defines no attribute of that name, the lookup raises
_apply_strategy(strat_key, value, final_args) == PyRaise("AttributeError")

\* mutant: an exception of the tag's resolution is raised again
FilterError_raised(value, error) == error

\* "except Exception as e: ... return str(value)"
FilterError(value, error) == PyStr(Str(value))

\* replace_match(match): the replacement of one tag, or the exception it raises
replace_match(var_name, has_filter, filter_part, context) ==
    LET value == IF var_name \in DOMAIN context THEN context[var_name] ELSE EmptyStr
        f == FilterCall(filter_part)
        applied == _apply_strategy(f.strat_key, value, f.final_args)
    IN  IF ~has_filter THEN PyStr(Str(value))
        ELSE IF f.strat_key # <<>>
        THEN IF applied.k = "raise" THEN FilterError(value, applied)
             ELSE PyStr(Str(applied))
        ELSE PyStr(Str(value))

\* pattern.sub(replace_match, text) from position i on: the text with every
\* match replaced, or the exception a replacement raised
RECURSIVE PatternSub(_, _, _)
PatternSub(text, i, context) ==
    IF i > Len(text) THEN PyStr(<<>>)
    ELSE LET m == TagMatch(text, i)
             r == replace_match(m.var_name, m.has_filter, m.filter_part, context)
             rest == PatternSub(text, IF m.ok THEN m.end ELSE i + 1, context)
         IN  IF ~m.ok
             THEN IF rest.k = "raise" THEN rest ELSE PyStr(<<text[i]>> \o rest.v)
             ELSE IF r.k = "raise" THEN r
             ELSE IF rest.k = "raise" THEN rest
             ELSE PyStr(r.v \o rest.v)

\* DocumentEngine._parse_and_replace_pptx_text(text, context)
_parse_and_replace_pptx_text(text, context) == PatternSub(text, 1, context)

\* '"{{" in run.text'
HasOpen(text) == \E i \in 1..(Len(text) - 1) : text[i] = "{" /\ text[i + 1] = "{"

\* the names of the tags pattern.sub replaces in the text from position i on
RECURSIVE ReplacedNames(_, _)
ReplacedNames(text, i) ==
    IF i > Len(text) THEN {}
    ELSE LET m == TagMatch(text, i)
         IN  (IF m.ok THEN {m.var_name} ELSE {})
                 \cup ReplacedNames(text, IF m.ok THEN m.end ELSE i + 1)

\* the body of the run loop of process_pptx: the new text of one run
RenderRun(text, context) ==
    IF HasOpen(text) THEN _parse_and_replace_pptx_text(text, context) ELSE PyStr(text)

\* the outcome of the run loop of process_pptx over one paragraph, done being
\* the outcome of each run: the texts of the runs afterwards, or the first
\* exception, which ends the rendering
RenderDone(done) ==
    IF \E i \in DOMAIN done : done[i].k = "raise"
    THEN done[Least({i \in DOMAIN done : done[i].k = "raise"})]
    ELSE [k |-> "runs", v |-> [i \in DOMAIN done |-> done[i].v]]

\* the run loop of process_pptx over one paragraph
RenderParagraph(runs, context) ==
    RenderDone([i \in 1..Len(runs) |-> RenderRun(runs[i], context)])

----------------------------------------------------------------------------
(* Inputs of the calls *)

\* the longest ops list a call is given
MaxOps == 4

\* all sequences over S of length 0..n
SeqsUpTo(S, n) == UNION {[1..k -> S] : k \in 0..n}

tok_aX == <<"a", "=", "X">>

tok_a_Y == <<" ", "a", " ", "=", "Y", " ">>

tok_eqE == <<"=", "E">>

tok_a == <<"a">>

tok_quoted == <<"O", "'", "K">>

LogicTokens ==
    {kw_default, kw_empty_if, tok_aX, tok_a_Y, tok_eqE, tok_a, <<>>, tok_quoted}

LogicValues ==
    {PyNone, EmptyStr, PyStr(<<" ">>), PyStr(<<"a">>), PyStr(<<" ", "a">>), PyInt(7)}

LogicInputs(max_ops) ==
    {[fn |-> "logic", value |-> v, ops |-> o] :
        v \in LogicValues, o \in SeqsUpTo(LogicTokens, max_ops)}

----------------------------------------------------------------------------
(* The log streams (app/main.py): log_generator and send_log.  A stream is one *)
(* run of log_generator, started by GET /stream-logs/{session_id}; a step of   *)
(* it is the code between two suspensions (await queue.get(), yield).          *)

\* the most streams opened
MaxStreams == 2

\* the most log lines a job sends before its last message
MaxLines == 2

Streams == 1..MaxStreams

Sessions == {"s1", "s2"}

\* a message is [text, n]: the n-th log line of the job, or one of its two last
\* messages
LogLine(n) == [text |-> "row processed", n |-> n]

LastMessages == {[text |-> "PROCESS_COMPLETE", n |-> 0], [text |-> "PROCESS_ERROR: failed", n |-> 0]}

\* the messages of a job
Messages == LastMessages \cup {LogLine(n) : n \in 1..MaxLines}

HEARTBEAT_TIMEOUT == [text |-> "HEARTBEAT_TIMEOUT", n |-> 0]

\* '"PROCESS_COMPLETE" in data or "PROCESS_ERROR" in data', of these messages
IsLast(data) == data \in LastMessages

\* no stream was opened and no job has sent anything
NoStreams ==
    /\ log_queues = <<>>
    /\ queue = [g \in Streams |-> <<>>]
    /\ pc = [g \in Streams |-> "idle"]
    /\ session_id = [g \in Streams |-> "none"]
    /\ stream = [g \in Streams |-> <<>>]
    /\ sent = [s \in Sessions |-> 0]
    /\ heard = [g \in Streams |-> <<>>]

\* "finally: log_queues.pop(session_id, None)" of stream g
Finally(g) == [s \in DOMAIN log_queues \ {session_id[g]} |-> log_queues[s]]

----------------------------------------------------------------------------
(* The state machine: Init draws the arguments, one action per entry point *)

InitWith(inputs) ==
    /\ input \in inputs
    /\ call = "pending"
    /\ output = PyNone
    /\ visited = {}
    /\ locals = <<>>
    /\ prev = PyNone
    /\ NoStreams

\* LogicStrategy().process(value, ops)
LogicCall ==
    /\ call = "pending"
    /\ input.fn = "logic"
    /\ call' = "logic"
    /\ output' = LogicStrategy_process(input.value, input.ops)
    /\ visited' = LogicRun(input.value, input.ops).seen
    /\ UNCHANGED <<input, locals, prev>>
    /\ UNCHANGED sse

InitLogic == InitWith(LogicInputs(MaxOps))

NextLogic == LogicCall

SpecLogic == InitLogic /\ [][NextLogic]_vars

----------------------------------------------------------------------------
(* Claims about LogicStrategy *)

IsDefaultKw(tok) == Strip(Lower(tok)) = kw_default

IsEmptyIfKw(tok) == Strip(Lower(tok)) = kw_empty_if

IsMapping(tok) == "=" \in Range(tok)

IsBlankValue(value) ==
    value = PyNone \/ (value.k = "str" /\ Range(value.v) \subseteq WhiteSpace)

MinOf(S) == CHOOSE x \in S : \A y \in S : x <= y

\* ops is made of mapping tokens plus one default pair at positions d, d + 1
C2_PairAt(ops, d) ==
    /\ d \in 1..(Len(ops) - 1)
    /\ IsDefaultKw(ops[d])
    /\ \A j \in (1..Len(ops)) \ {d, d + 1} : IsMapping(ops[j])

C2_Scope ==
    /\ call = "logic"
    /\ ~IsBlankValue(input.value)
    /\ \E d \in 1..Len(input.ops) : C2_PairAt(input.ops, d)

\* the result C2 states, the default pair's literal read as lit
C2_Expected(value, ops, d, lit) ==
    LET matches == {j \in (1..Len(ops)) \ {d, d + 1} :
                        Strip(MapKey(ops[j])) = Strip(Str(value))}
    IN  IF matches # {}
        THEN PyStr(Strip(MapOutput(ops[MinOf(matches)])))
        ELSE PyStr(lit)

\* a literal token without the one pair of quotes that may surround it
C2_Unwrap(tok) ==
    IF Len(tok) >= 2 /\ tok[1] = tok[Len(tok)] /\ tok[1] \in {"'", "\""}
    THEN SubSeq(tok, 2, Len(tok) - 1)
    ELSE tok

\* C2: for a non-empty value and ops made of mapping tokens plus one default
\* pair, the result is the trimmed output of the first mapping token whose
\* trimmed key equals the trimmed string form of the value, wherever the default
\* pair stands; with no match it is the default pair's literal (unwrapped of
\* surrounding quotes).
C2_AsStated ==
    C2_Scope =>
        LET d == CHOOSE d \in 1..Len(input.ops) : C2_PairAt(input.ops, d)
        IN  output = C2_Expected(input.value, input.ops, d, C2_Unwrap(input.ops[d + 1]))

\* What the code does for C2: the same, but with no match the result is the
\* default pair's literal with every ' and " character removed, inner ones too.
C2_FirstMatchElseDefault ==
    C2_Scope =>
        LET d == CHOOSE d \in 1..Len(input.ops) : C2_PairAt(input.ops, d)
        IN  output = C2_Expected(input.value, input.ops, d,
                                 StripQuotes(input.ops[d + 1]))

\* a default pair in front of two matching mapping tokens: the first one wins
C2_Witness ==
    /\ C2_Scope
    /\ input.value = PyStr(<<" ", "a">>)
    /\ input.ops = <<kw_default, tok_quoted, tok_a_Y, tok_aX>>
    /\ output = PyStr(<<"Y">>)

\* positions of ops the scan reads as operation tokens when nothing returns:
\* the token after a default or empty_if keyword is its argument
RECURSIVE C3_OpPositions(_, _)
C3_OpPositions(ops, i) ==
    IF i > Len(ops) THEN {}
    ELSE IF IsDefaultKw(ops[i]) \/ IsEmptyIfKw(ops[i])
         THEN {i} \cup C3_OpPositions(ops, i + 2)
         ELSE {i} \cup C3_OpPositions(ops, i + 1)

\* the token at position j returns at once for an empty value
C3_Fires(ops, j) ==
    \/ IsDefaultKw(ops[j]) /\ j < Len(ops)
    \/ IsEmptyIfKw(ops[j]) /\ j < Len(ops) /\ ops[j + 1] = <<>>
    \/ ~IsDefaultKw(ops[j]) /\ ~IsEmptyIfKw(ops[j]) /\ IsMapping(ops[j])
          /\ Strip(MapKey(ops[j])) = <<>>

C3_Firing(ops) == {j \in C3_OpPositions(ops, 1) : C3_Fires(ops, j)}

C3_Scope == call = "logic" /\ IsBlankValue(input.value)

\* what C3 states for an empty value, the literal of a default pair read by lit(_)
C3_Holds(lit(_)) ==
    LET ops == input.ops
        firing == C3_Firing(ops)
    IN  IF firing = {}
        THEN output = input.value
        ELSE LET j == MinOf(firing)
             IN  /\ visited = {p \in C3_OpPositions(ops, 1) : p <= j}
                 /\ IF IsDefaultKw(ops[j]) THEN output = PyStr(lit(ops[j + 1]))
                    ELSE IF IsEmptyIfKw(ops[j]) THEN output = EmptyStr
                    ELSE output = PyStr(Strip(MapOutput(ops[j])))

\* C3: for a null or blank value the scan returns at once the literal that
\* follows the first default keyword it reaches (unwrapped of surrounding
\* quotes), unless an earlier empty_if with an empty argument or a mapping token
\* with an empty trimmed key fired; no token after the firing one is inspected,
\* and when nothing fires the original value is returned (never a standalone
\* else-candidate).
C3_AsStated == C3_Scope => C3_Holds(C2_Unwrap)

\* What the code does for C3: the same, but the literal is returned with every
\* ' and " character removed, inner ones too.
C3_EmptyValueTakesFirstDefault == C3_Scope => C3_Holds(StripQuotes)

\* an empty value, a standalone candidate, then default with mapping tokens after it
C3_Witness ==
    /\ C3_Scope
    /\ input.value = PyStr(<<" ">>)
    /\ input.ops = <<tok_a, kw_default, tok_aX, tok_eqE>>
    /\ output = PyStr(tok_aX)
    /\ visited = {1, 2}

MaxOf(S) == CHOOSE x \in S : \A y \in S : x >= y

\* the token at position j returns at once for a non-empty value
C16_Returns(ops, j, value) ==
    \/ IsEmptyIfKw(ops[j]) /\ j < Len(ops) /\ ops[j + 1] = Strip(Str(value))
    \/ ~IsDefaultKw(ops[j]) /\ ~IsEmptyIfKw(ops[j]) /\ IsMapping(ops[j])
          /\ Strip(MapKey(ops[j])) = Strip(Str(value))

\* the positions that record an else-candidate: a default keyword with its
\* literal, a standalone token
C16_Candidates(ops) ==
    {j \in C3_OpPositions(ops, 1) :
        \/ IsDefaultKw(ops[j]) /\ j < Len(ops)
        \/ ~IsDefaultKw(ops[j]) /\ ~IsEmptyIfKw(ops[j]) /\ ~IsMapping(ops[j])}

\* a non-empty value, no immediate return, some candidate recorded
C16_Scope ==
    /\ call = "logic"
    /\ ~IsBlankValue(input.value)
    /\ \A j \in C3_OpPositions(input.ops, 1) : ~C16_Returns(input.ops, j, input.value)
    /\ C16_Candidates(input.ops) # {}

\* what C16 states, the literal of a default pair read by lit(_)
C16_Holds(lit(_)) ==
    LET ops == input.ops
        last == MaxOf(C16_Candidates(ops))
    IN  output = PyStr(IF IsDefaultKw(ops[last]) THEN lit(ops[last + 1]) ELSE ops[last])

\* C16: for a non-empty value with no immediate return, the result is the last
\* else-candidate recorded in scan order, be it the literal of a default pair
\* (unwrapped of surrounding quotes) or a standalone token.
C16_AsStated == C16_Scope => C16_Holds(C2_Unwrap)

\* What the code does for C16: the same, but the literal of a default pair is
\* recorded with every ' and " character removed, inner ones too.
C16_LastCandidateWins == C16_Scope => C16_Holds(StripQuotes)

\* the longest ops list of the calls the resolution frame is checked on
MaxFrameOps == 3

InitLogicFrame == InitWith(LogicInputs(MaxFrameOps))

NextLogicFrame == LogicCall

SpecLogicFrame == InitLogicFrame /\ [][NextLogicFrame]_vars

\* no return statement inside the scan fires
C17_NoReturn ==
    IF IsBlankValue(input.value) THEN C3_Firing(input.ops) = {}
    ELSE \A j \in C3_OpPositions(input.ops, 1) : ~C16_Returns(input.ops, j, input.value)

C17_Scope ==
    /\ call = "logic"
    /\ IsBlankValue(input.value) \/ C16_Candidates(input.ops) = {}
    /\ C17_NoReturn

\* C17: when no immediate return fired and either no else-candidate was
\* recorded or the value is empty, the result is the original value itself,
\* unconverted: None stays None, a number a number, text keeps its whitespace.
\* With empty ops the strategy is the identity.
C17_ResolutionFrame == C17_Scope => output = input.value

\* a number with tokens that record no candidate, and a blank text with a
\* candidate recorded: both come back as they were
C17_Witness ==
    /\ C17_Scope
    /\ \/ /\ input.value = PyInt(7)
          /\ input.ops = <<tok_aX, kw_empty_if, tok_a>>
          /\ output = PyInt(7)
       \/ /\ input.value = PyStr(<<" ">>)
          /\ input.ops = <<tok_a, tok_aX>>
          /\ output = PyStr(<<" ">>)

----------------------------------------------------------------------------
(* Calls of DataFormatter *)

\* the longest directive text given to parse_protocol
MaxDirective == 7

DirectiveChars == {";", " ", "a", "B"}

ParseInputs(max_len) ==
    {[fn |-> "parse", text |-> PyNone]}
        \cup {[fn |-> "parse", text |-> PyStr(t)] :
                t \in SeqsUpTo(DirectiveChars, max_len)}

FormatTypes ==
    {t_string, t_int, t_float, t_currency, t_date, t_mask, t_image, t_logic,
     <<"z", "z">>}

FormatArgs ==
    {<<"u", "p", "p", "e", "r">>, <<"0", "3", "d">>, <<".">>, <<"i", "s", "o">>,
     <<"(", "#", "#", ")">>, kw_default, <<"Q">>, <<"U", "S", "D">>}

\* the longest ops list of a directive given to format_value
MaxDirectiveOps == 2

FormatDirectives(max_ops) ==
    {Join(<<t>> \o o, ";") : t \in FormatTypes, o \in SeqsUpTo(FormatArgs, max_ops)}

FormatValues ==
    {PyNone, EmptyStr, PyStr(<<"7">>), PyStr(<<"a", "b">>), PyInt(7),
     PyDateTime(2024, 2, 29, 37800)}

FormatInputs(max_ops) ==
    {[fn |-> "format", value |-> v, protocol |-> parse_protocol(PyStr(d))] :
        v \in FormatValues, d \in FormatDirectives(max_ops)}

\* DataFormatter().parse_protocol(text)
ParseCall ==
    /\ call = "pending"
    /\ input.fn = "parse"
    /\ call' = "parse"
    /\ output' = PyDict(parse_protocol(input.text))
    /\ UNCHANGED <<input, visited, locals, prev>>
    /\ UNCHANGED sse

\* DataFormatter().format_value(value, protocol)
FormatCall ==
    /\ call = "pending"
    /\ input.fn = "format"
    /\ call' = "format"
    /\ output' = format_value(input.value, input.protocol)
    /\ UNCHANGED <<input, visited, locals, prev>>
    /\ UNCHANGED sse

InitFormatter == InitWith(ParseInputs(MaxDirective) \cup FormatInputs(MaxDirectiveOps))

NextFormatter == ParseCall \/ FormatCall

SpecFormatter == InitFormatter /\ [][NextFormatter]_vars

----------------------------------------------------------------------------
(* Claims about DataFormatter *)

\* the ops of a parsed directive: its format and options entries, when present
OpsOf(protocol) ==
    (IF PyGet(protocol, "format") # PyNone THEN <<protocol["format"].v>> ELSE <<>>)
        \o (IF PyGet(protocol, "options") # PyNone THEN <<protocol["options"].v>>
            ELSE <<>>)

C1_ShortCircuited == {t_string, t_int, t_float, t_currency, t_date, t_mask, t_image}

\* C1: format(value, directive) of a null or empty value is "" for every strategy
\* other than Logic, and for Logic the value reaches the strategy, so that ops
\* [default, X] applied to null give X.
C1_NullRouting ==
    call = "format" /\ input.value \in {PyNone, EmptyStr} =>
        /\ input.protocol["type"].v \in C1_ShortCircuited => output = EmptyStr
        /\ input.protocol["type"].v = t_logic =>
              output = LogicStrategy_process(input.value, OpsOf(input.protocol))

\* the segments of a directive text, trimmed, the empty ones dropped
C10_Segments(text) ==
    LET parts == Split(text, ";")
        trimmed == [i \in 1..Len(parts) |-> Strip(parts[i])]
        kept == {i \in 1..Len(parts) : trimmed[i] # <<>>}
        nth(k) == CHOOSE i \in kept : Cardinality({j \in kept : j <= i}) = k
    IN  [k \in 1..Cardinality(kept) |-> trimmed[nth(k)]]

\* C10: for a non-blank directive, type is the first non-empty trimmed segment
\* lower-cased and ops is the list of all the following non-empty trimmed
\* segments, in order and in their original case.
C10_Tokenization ==
    call = "parse" /\ input.text # PyNone /\ C10_Segments(input.text.v) # <<>> =>
        LET segs == C10_Segments(input.text.v)
        IN  /\ output.v["type"] = PyStr(Lower(segs[1]))
            /\ OpsOf(output.v) = Tail(segs)

\* the directive text is absent, empty or only whitespace
C11_Blank(text) == text = PyNone \/ Strip(text.v) = <<>>

\* C11: on absent, empty or whitespace-only input the parser returns the
\* neutral directive, of type "default" with an empty ops list.
C11_BlankDirective ==
    call = "parse" /\ C11_Blank(input.text) =>
        /\ output.k = "dict"
        /\ output.v["type"] = PyStr(<<"d", "e", "f", "a", "u", "l", "t">>)
        /\ OpsOf(output.v) = <<>>

\* the type keys of the registry
C12_KnownTypes ==
    {t_string, t_int, t_float, t_currency, t_date, t_mask, t_image, t_logic,
     <<"p", "e", "r", "c", "e", "n", "t">>, <<"t", "i", "m", "e">>,
     <<"b", "o", "o", "l">>, <<"d", "e", "f", "a", "u", "l", "t">>}

\* the numeric formatting fails inside: the value is not a number, or the
\* format spec of an int directive is one format() rejects
C12_StrategyFails(value, protocol) ==
    /\ protocol["type"].v \in {t_int, t_float, t_currency}
    /\ \/ ToFloat(value).err # ""
       \/ /\ protocol["type"].v = t_int
          /\ Truthy(PyGet(protocol, "format"))
          /\ ~FormatInt(ToFloat(value).n, protocol["format"].v).ok

\* C12: format(value, directive) never raises; for a type that is not a key of
\* the registry, and when the selected strategy fails internally, the result
\* is the string conversion of the value, never a raw non-string object.
C12_FailOpen ==
    call = "format" /\ input.value \notin {PyNone, EmptyStr} =>
        /\ output.k # "raise"
        /\ input.protocol["type"].v \notin C12_KnownTypes =>
              output = PyStr(Str(input.value))
        /\ C12_StrategyFails(input.value, input.protocol) =>
              output = PyStr(Str(input.value))

----------------------------------------------------------------------------
(* Calls of DateStrategy *)

\* the longest ops list given to DateStrategy.process
MaxDateOps == 3

DateTokens ==
    {kw_add_years, kw_add_days, kw_iso, kw_short, kw_fmt, <<"1">>, <<"-", "1">>,
     <<"4">>, <<"8", "0", "0", "0">>, <<"p", "t">>, <<"z", "z">>, <<>>}

iso_leap_day == <<"2", "0", "2", "4", "-", "0", "2", "-", "2", "9">>

DateValues ==
    {PyDateTime(2024, 2, 29, 37800), PyDateTime(2023, 12, 31, 0),
     PyStr(iso_leap_day),
     PyStr(iso_leap_day \o <<"T", "1", "0", ":", "3", "0", ":", "0", "0">>),
     PyStr(<<"s", "o", "o", "n">>), PyNone, EmptyStr}

DateInputs(max_ops) ==
    {[fn |-> "date", value |-> v, ops |-> o] :
        v \in DateValues, o \in SeqsUpTo(DateTokens, max_ops)}

\* DateStrategy().process(value, ops)
DateCall ==
    /\ call = "pending"
    /\ input.fn = "date"
    /\ call' = "date"
    /\ output' = DateStrategy_process(input.value, input.ops)
    /\ IF input.value # PyNone /\ DateNormalize(input.value).ok
       THEN /\ visited' = DateRun(input.value, input.ops).seen
            /\ locals' = DateRun(input.value, input.ops)
       ELSE UNCHANGED <<visited, locals>>
    /\ UNCHANGED <<input, prev>>
    /\ UNCHANGED sse

InitDate == InitWith(DateInputs(MaxDateOps))

NextDate == DateCall

SpecDate == InitDate /\ [][NextDate]_vars

----------------------------------------------------------------------------
(* Claims about DateStrategy *)

\* a call of process with a parsable value (the pipeline ran)
DateRan == call = "date" /\ input.value # PyNone /\ DateNormalize(input.value).ok

C4_Scope ==
    /\ DateRan
    /\ Len(input.ops) = 2
    /\ Strip(Lower(input.ops[1])) = kw_add_years
    /\ input.ops[2] # <<>>
    /\ ParseInt(input.ops[2]).ok

\* what C4 states of ops [add_years, N]; outOfRange is what holds when neither
\* date is one the datetime type can hold
C4_Holds(outOfRange) ==
    LET dt == DateNormalize(input.value).dt
        N == ParseInt(input.ops[2]).n
        n == ToOrdinal(dt[1], dt[2], dt[3]) + 365 * N
    IN  IF ValidDate(dt[1] + N, dt[2], dt[3])
        THEN output = PyStr(DateIso(<<dt[1] + N, dt[2], dt[3]>>)) /\ visited = {1}
        ELSE IF n \in 1..MaxOrdinal
        THEN output = PyStr(DateIso(FromOrdinal(n))) /\ visited = {1}
        ELSE outOfRange

\* C4 as stated: add_years N gives the same month and day in year + N when that is a valid
\* calendar date and otherwise the running date plus 365 * N days; the integer
\* token is consumed and with no formatting op the output is the date-only ISO
\* string.
C4_AsStated ==
    C4_Scope =>
        C4_Holds(LET dt == DateNormalize(input.value).dt
                     n == ToOrdinal(dt[1], dt[2], dt[3])
                              + 365 * ParseInt(input.ops[2]).n
                 IN  n >= 1 /\ output = PyStr(DateIso(FromOrdinal(n))))

\* C4 amended: add_years N never raises; the running date becomes the same month
\* and day in year + N when that is a valid date of years 1..9999, otherwise the
\* running date plus 365 * N days when that date is within years 1..9999, the
\* integer token is consumed and with no formatting op the output is the
\* date-only ISO string; when neither date is within years 1..9999 the pipeline
\* stops and the output is the string form of the original value.
C4_AddYears == C4_Scope => C4_Holds(output = PyStr(Str(input.value)))

\* 2024-02-29 10:30:00 with ops [add_years, 1] gives "2025-02-28"
C4_Witness ==
    /\ C4_Scope
    /\ input.value = PyDateTime(2024, 2, 29, 37800)
    /\ input.ops = <<kw_add_years, <<"1">>>>
    /\ output = PyStr(<<"2", "0", "2", "5", "-", "0", "2", "-", "2", "8">>)
    /\ visited = {1}

\* no formatting operation of ops, scanned from position i, is applied: iso and
\* year always are, fmt with a following non-empty token is, short/medium/long/
\* full/month_name with a following known locale are; an arithmetic keyword
\* takes a following integer token as its argument
RECURSIVE C5_NoFormatting(_, _)
C5_NoFormatting(ops, i) ==
    IF i > Len(ops) THEN TRUE
    ELSE LET op == Strip(Lower(ops[i]))
             arg == IF i < Len(ops) THEN ops[i + 1] ELSE <<>>
         IN  IF op \in {kw_iso, kw_year} THEN FALSE
             ELSE IF op = kw_fmt THEN arg = <<>> /\ C5_NoFormatting(ops, i + 1)
             ELSE IF op \in {kw_short, kw_medium, kw_long, kw_full, kw_month_name}
             THEN /\ arg = <<>> \/ Strip(StripQuotes(arg)) \notin KnownLocales
                  /\ C5_NoFormatting(ops, i + 1)
             ELSE IF op \in {kw_add_days, kw_add_years} /\ arg # <<>> /\ ParseInt(arg).ok
             THEN C5_NoFormatting(ops, i + 2)
             ELSE C5_NoFormatting(ops, i + 1)

C5_Scope == DateRan /\ C5_NoFormatting(input.ops, 1)

C5_DateOnly ==
    /\ locals.formatted_result.k = "datetime"
    /\ output = PyStr(DateIso(locals.formatted_result.v))
    /\ Len(output.v) = 10

\* C5 as stated: for a parsable value and ops in which no formatting operation
\* was applied, the output is the date-only ISO text YYYY-MM-DD of the running
\* date, without a time of day.
C5_AsStated == C5_Scope => C5_DateOnly

\* C5 amended: for a parsable value and ops in which no formatting operation was
\* applied, the output is the date-only ISO text YYYY-MM-DD of the running date,
\* without a time of day, unless an add_days or add_years step left the range of
\* years 1..9999: then the output is the string form of the original value.
C5_TerminalRule ==
    C5_Scope =>
        /\ ~locals.format_applied
        /\ IF locals.err THEN output = PyStr(Str(input.value)) ELSE C5_DateOnly

\* a value with a time of day, arithmetic and a formatting keyword without argument
C5_Witness ==
    /\ C5_Scope
    /\ input.value = PyDateTime(2024, 2, 29, 37800)
    /\ input.ops = <<kw_add_days, <<"1">>, kw_short>>
    /\ output = PyStr(<<"2", "0", "2", "4", "-", "0", "3", "-", "0", "1">>)


\* a February 29 value under [add_years, N], year + N a year of the calendar that
\* is not a leap year
C23_Scope ==
    /\ call = "date"
    /\ DateNormalize(input.value).ok
    /\ DateNormalize(input.value).dt[2] = 2
    /\ DateNormalize(input.value).dt[3] = 29
    /\ Len(input.ops) = 2
    /\ input.ops[1] = kw_add_years
    /\ ParseInt(input.ops[2]).ok
    /\ LET year == DateNormalize(input.value).dt[1] + ParseInt(input.ops[2]).n
       IN  year \in MINYEAR..MAXYEAR /\ ~IsLeap(year)

\* C23: add_years N on a February 29 date, year + N not a leap year, gives
\* February 28 of year + N.
C23_LeapDayFallback ==
    C23_Scope =>
        output = PyStr(DateIso(<<DateNormalize(input.value).dt[1]
                                    + ParseInt(input.ops[2]).n, 2, 28>>))

----------------------------------------------------------------------------
(* Calls of MaskStrategy *)

\* the longest text and the longest ops list given to MaskStrategy.process
MaxMaskText == 5

MaxMaskOps == 2

pattern_pair == <<"#", "-", "#">>

MaskTokens == {kw_credit_card, kw_email, kw_name, kw_mask, pattern_pair}

masked_card ==
    <<"*", "*", "*", "*", " ", "*", "*", "*", "*", " ", "*", "*", "*", "*", " ",
      "1", "2", "1", "2">>

MaskValues(max_text) ==
    {PyStr(t) : t \in SeqsUpTo({"1", "2", " "}, max_text)}
        \cup {PyStr(masked_card), PyStr(<<"a", "b", "@", "c", ".", "d">>),
              PyStr(<<"A", "n", "n", " ", "L", "e", "e">>), PyInt(12345), PyNone}

MaskInputs(max_text, max_ops) ==
    {[fn |-> "mask", value |-> v, ops |-> o] :
        v \in MaskValues(max_text), o \in SeqsUpTo(MaskTokens, max_ops)}

\* MaskStrategy().process(value, ops)
MaskCall ==
    /\ call = "pending"
    /\ input.fn = "mask"
    /\ call' = "mask"
    /\ output' = MaskStrategy_process(input.value, input.ops)
    /\ visited' = IF input.value = PyNone THEN {}
                  ELSE MaskScan(input.ops, 1, Str(input.value), {}).seen
    /\ UNCHANGED <<input, locals, prev>>
    /\ UNCHANGED sse

\* MaskStrategy().process(output, ops): the same ops on the result of the first call
MaskAgain ==
    /\ call = "mask"
    /\ call' = "mask_again"
    /\ prev' = output
    /\ output' = MaskStrategy_process(output, input.ops)
    /\ UNCHANGED <<input, visited, locals>>
    /\ UNCHANGED sse

InitMask == InitWith(MaskInputs(MaxMaskText, MaxMaskOps))

NextMask == MaskCall \/ MaskAgain

SpecMask == InitMask /\ [][NextMask]_vars

----------------------------------------------------------------------------
(* Claims about MaskStrategy *)

C6_Digits(t) == SelectSeq(t, LAMBDA c : c \in {"0", "1", "2", "3", "4", "5", "6", "7", "8", "9"})

C6_Once(t) ==
    LET d == C6_Digits(t)
    IN  IF Len(d) < 4 THEN t
        ELSE <<"*", "*", "*", "*", " ", "*", "*", "*", "*", " ", "*", "*", "*", "*", " ",
               d[Len(d) - 3], d[Len(d) - 2], d[Len(d) - 1], d[Len(d)]>>

C6_Scope == input.fn = "mask" /\ input.value.k = "str" /\ input.ops = <<kw_credit_card>>

\* C6: masking a text as a credit card gives "**** **** **** " followed by its
\* last four digits when it has at least four digits and the text unchanged
\* otherwise, and masking the result again gives the same result.
C6_CreditCardIdempotent ==
    /\ C6_Scope /\ call = "mask" => output = PyStr(C6_Once(input.value.v))
    /\ C6_Scope /\ call = "mask_again" =>
           /\ prev = PyStr(C6_Once(input.value.v))
           /\ output = prev

\* five digits masked twice: the last four survive both calls
C6_Witness ==
    /\ C6_Scope
    /\ call = "mask_again"
    /\ input.value = PyStr(<<"1", "2", "1", "2", "1">>)
    /\ prev = PyStr(<<"*", "*", "*", "*", " ", "*", "*", "*", "*", " ",
                      "*", "*", "*", "*", " ", "2", "1", "2", "1">>)
    /\ output = prev

----------------------------------------------------------------------------
(* Calls of StringStrategy *)

\* the longest text and the longest ops list given to StringStrategy.process
MaxText == 3

MaxStringOps == 3

hello_world == <<"H", "e", "l", "l", "o", " ", "W", "o", "r", "l", "d">>

StringTokens == {kw_truncate, <<"0">>, <<"2">>, <<"5">>, kw_upper, kw_prefix, kw_reverse}

StringValues(max_text) ==
    {PyStr(t) : t \in SeqsUpTo({"a", "B", " "}, max_text)}
        \cup {PyStr(hello_world), PyInt(12345), PyNone}

StringInputs(max_text, max_ops) ==
    {[fn |-> "string", value |-> v, ops |-> o] :
        v \in StringValues(max_text), o \in SeqsUpTo(StringTokens, max_ops)}

\* StringStrategy().process(value, ops)
StringCall ==
    /\ call = "pending"
    /\ input.fn = "string"
    /\ call' = "string"
    /\ output' = StringStrategy_process(input.value, input.ops)
    /\ visited' = IF input.value = PyNone THEN {}
                  ELSE StringScan(input.ops, 1, Str(input.value), {}).seen
    /\ UNCHANGED <<input, locals, prev>>
    /\ UNCHANGED sse

InitString == InitWith(StringInputs(MaxText, MaxStringOps))

NextString == StringCall

SpecString == InitString /\ [][NextString]_vars

\* the longest ops list of a pipeline run in two parts or with a token inserted
MaxPipelineOps == 3

tok_unknown == <<"z", "z">>

PipelineTokens == {kw_reverse, kw_prefix, kw_truncate, <<"2">>, tok_unknown}

PipelineValues ==
    {PyNone, PyStr(<<" ", "a">>), PyStr(<<"a", "B", " ", "c">>), PyInt(12345)}

PipelineInputs(max_ops) ==
    UNION {{[fn |-> "compose", value |-> v, ops |-> o, cut |-> c] : c \in 0..Len(o)}
              \cup {[fn |-> "insert", value |-> v, ops |-> o, at |-> p] :
                        p \in 1..(Len(o) + 1)} :
           v \in PipelineValues, o \in SeqsUpTo(PipelineTokens, max_ops)}

\* ops with the token tok placed at position at
InsertAt(ops, at, tok) ==
    SubSeq(ops, 1, at - 1) \o <<tok>> \o SubSeq(ops, at, Len(ops))

\* StringStrategy().process(value, ops[:cut])
ComposeFirst ==
    /\ call = "pending"
    /\ input.fn = "compose"
    /\ call' = "first"
    /\ output' = StringStrategy_process(input.value, SubSeq(input.ops, 1, input.cut))
    /\ UNCHANGED <<input, visited, locals, prev>>
    /\ UNCHANGED sse

\* StringStrategy().process(output, ops[cut:]): the rest of ops on the result
\* of the first call
ComposeSecond ==
    /\ call = "first"
    /\ call' = "second"
    /\ prev' = output
    /\ output' = StringStrategy_process(output,
                                        SubSeq(input.ops, input.cut + 1, Len(input.ops)))
    /\ UNCHANGED <<input, visited, locals>>
    /\ UNCHANGED sse

\* StringStrategy().process(value, ops) and the same call with an unknown token
\* inserted into ops
InsertCall ==
    /\ call = "pending"
    /\ input.fn = "insert"
    /\ call' = "insert"
    /\ prev' = StringStrategy_process(input.value, input.ops)
    /\ output' = StringStrategy_process(input.value,
                                        InsertAt(input.ops, input.at, tok_unknown))
    /\ UNCHANGED <<input, visited, locals>>
    /\ UNCHANGED sse

InitPipeline == InitWith(PipelineInputs(MaxPipelineOps))

NextPipeline == ComposeFirst \/ ComposeSecond \/ InsertCall

SpecPipeline == InitPipeline /\ [][NextPipeline]_vars

----------------------------------------------------------------------------
(* Claims about StringStrategy *)

\* the ops are exactly "truncate" followed by the decimal digits of n >= 0
C8_Limit == DigitsNat(input.ops[2])

C8_Scope ==
    /\ call = "string"
    /\ input.value # PyNone
    /\ Len(input.ops) = 2
    /\ input.ops[1] = kw_truncate
    /\ input.ops[2] # <<>>
    /\ \A i \in 1..Len(input.ops[2]) : IsDigit(input.ops[2][i])

\* C8: truncate n (n >= 0) leaves a text of at most n characters unchanged and
\* turns a longer one into its first n characters followed by "...", so the
\* result is never longer than n + 3 characters.
C8_Truncate ==
    C8_Scope =>
        LET text == Str(input.value)
            n == C8_Limit
        IN  /\ output.k = "str"
            /\ Len(text) <= n => output.v = text
            /\ Len(text) > n =>
                   /\ Len(output.v) = n + 3
                   /\ \A i \in 1..n : output.v[i] = text[i]
                   /\ \A i \in (n + 1)..(n + 3) : output.v[i] = "."
            /\ Len(output.v) <= n + 3

\* "Hello World" truncated to 5 gives "Hello..."
C8_Witness ==
    /\ C8_Scope
    /\ input.value = PyStr(hello_world)
    /\ input.ops = <<kw_truncate, <<"5">>>>
    /\ output = PyStr(<<"H", "e", "l", "l", "o", ".", ".", ".">>)


C18_ArgKw == {kw_prefix, kw_suffix, kw_truncate}

C18_TakesArg(tok) == Strip(Lower(tok)) \in C18_ArgKw

\* the positions of ops from i on that are read as keywords, the others being
\* the arguments of prefix, suffix and truncate
RECURSIVE C18_Keywords(_, _)
C18_Keywords(ops, i) ==
    IF i > Len(ops) THEN {}
    ELSE {i} \cup C18_Keywords(ops, IF C18_TakesArg(ops[i]) THEN i + 2 ELSE i + 1)

\* ops1 ends with an argument-taking keyword still waiting for its argument
C18_Waiting(ops1) ==
    /\ ops1 # <<>>
    /\ Len(ops1) \in C18_Keywords(ops1, 1)
    /\ C18_TakesArg(ops1[Len(ops1)])

\* ops was run in two parts, the first one complete
C18_Split ==
    call = "second" /\ ~C18_Waiting(SubSeq(input.ops, 1, input.cut))

\* the unknown token was inserted at a position that is no argument position
C18_Inserted ==
    /\ call = "insert"
    /\ input.at = 1 \/ ~(/\ input.at - 1 \in C18_Keywords(input.ops, 1)
                         /\ C18_TakesArg(input.ops[input.at - 1]))

\* C18 as stated: for every value and every split of ops into ops1 ++ ops2 with
\* ops1 complete, process(value, ops1 ++ ops2) = process(process(value, ops1), ops2);
\* an unknown token inserted at a non-argument position changes nothing.
C18_AsStated ==
    /\ C18_Split => output = StringStrategy_process(input.value, input.ops)
    /\ C18_Inserted => output = prev

\* C18: the same for every value that is not None; process(None, ops) is ""
\* whatever ops holds, also with the unknown token inserted.
C18_Composition ==
    /\ C18_Split /\ input.value # PyNone =>
          output = StringStrategy_process(input.value, input.ops)
    /\ C18_Split /\ input.value = PyNone /\ input.cut = Len(input.ops) =>
          output = EmptyStr
    /\ C18_Inserted => output = prev

\* " a" under [prefix, 2] and then [reverse]: "2 a", then "a 2"
C18_Witness ==
    /\ C18_Split
    /\ input.value = PyStr(<<" ", "a">>)
    /\ input.ops = <<kw_prefix, <<"2">>, kw_reverse>>
    /\ input.cut = 2
    /\ prev = PyStr(<<"2", " ", "a">>)
    /\ output = PyStr(<<"a", " ", "2">>)

----------------------------------------------------------------------------
(* Calls of NumberStrategy *)

\* the longest text given to NumberStrategy._normalize_to_float
MaxNumberText == 5

dot_thousands == <<"1", ".", "2", "0", "0", ",", "5", "0">>

comma_thousands == <<"1", ",", "2", "0", "0", ".", "5", "0">>

NumberValues(max_text) ==
    {PyStr(t) : t \in SeqsUpTo({"1", "2", ",", ".", " "}, max_text)}
        \cup {PyStr(dot_thousands), PyStr(comma_thousands), PyStr(<<"1", ".", "2", "3", "4", ".", "5", "6", "7", ",", "8">>),
              PyStr(<<"-", "1", ",", "5">>), PyInt(1200), PyFloat(12), PyDecimal(12005, 1), PyNone}

NumberInputs(max_text) ==
    {[fn |-> "normalize", value |-> v] : v \in NumberValues(max_text)}

\* NumberStrategy()._normalize_to_float(value)
NormalizeCall ==
    /\ call = "pending"
    /\ input.fn = "normalize"
    /\ call' = "normalize"
    /\ output' = _normalize_to_float(input.value)
    /\ UNCHANGED <<input, visited, locals, prev>>
    /\ UNCHANGED sse

\* the longest ops list given to NumberStrategy.process
MaxNumberOps == 3

spec_04d == <<"0", "4", "d">>

spec_left5 == <<"<", "5">>

code_USD == <<"U", "S", "D">>

lang_en == <<"e", "n">>

style_eu == <<".", ",">>

NumberTokens ==
    {kw_int, kw_float, kw_round, kw_currency, kw_spell_out, kw_ordinal, kw_fmt,
     kw_separator, spec_04d, spec_left5, <<"2">>, code_USD, lang_en, style_eu}

ProcessValues ==
    {PyInt(7), PyStr(<<"1", "2", "0", "0", ",", "5">>), PyInt(1500),
     PyStr(<<"a", "b">>), PyNone}

ProcessInputs(max_ops) ==
    {[fn |-> "number", value |-> v, ops |-> o] :
        v \in ProcessValues, o \in SeqsUpTo(NumberTokens, max_ops)}

\* NumberStrategy().process(value, ops)
NumberCall ==
    /\ call = "pending"
    /\ input.fn = "number"
    /\ call' = "number"
    /\ output' = NumberStrategy_process(input.value, input.ops)
    /\ visited' = NumberRun(input.value, input.ops).seen
    /\ UNCHANGED <<input, locals, prev>>
    /\ UNCHANGED sse

InitNumber == InitWith(NumberInputs(MaxNumberText))

NextNumber == NormalizeCall

SpecNumber == InitNumber /\ [][NextNumber]_vars

InitNumberOps == InitWith(ProcessInputs(MaxNumberOps))

NextNumberOps == NumberCall

SpecNumberOps == InitNumberOps /\ [][NextNumberOps]_vars

----------------------------------------------------------------------------
(* Claims about NumberStrategy *)

C9_Text == Strip(input.value.v)

C9_Has(c) == \E i \in 1..Len(C9_Text) : C9_Text[i] = c

C9_First(c) == CHOOSE i \in 1..Len(C9_Text) : C9_Text[i] = c /\ \A j \in 1..(i - 1) : C9_Text[j] # c

\* the thousands separator: the one of "," and "." whose first occurrence comes first
C9_Thousands ==
    IF C9_Has(",") /\ C9_Has(".")
    THEN IF C9_First(",") < C9_First(".") THEN "," ELSE "."
    ELSE "none"

C9_Decimal == IF C9_Thousands = "," THEN "." ELSE ","

\* the text is digits, thousands separators and exactly one decimal separator
C9_WellFormed ==
    /\ Cardinality({i \in 1..Len(C9_Text) : C9_Text[i] = C9_Decimal}) = 1
    /\ \A i \in 1..Len(C9_Text) : IsDigit(C9_Text[i]) \/ C9_Text[i] \in {C9_Thousands, C9_Decimal}
    /\ \E i \in 1..Len(C9_Text) : IsDigit(C9_Text[i])

\* the text has two decimal separators or no digit
C9_Unreadable ==
    \/ Cardinality({i \in 1..Len(C9_Text) : C9_Text[i] = C9_Decimal}) > 1
    \/ \A i \in 1..Len(C9_Text) : ~IsDigit(C9_Text[i])

C9_IntDigits ==
    SelectSeq(SubSeq(C9_Text, 1, C9_First(C9_Decimal) - 1), IsDigit)

\* the digits after the decimal separator, without the trailing zeros
C9_FracDigits ==
    LET d == SelectSeq(SubSeq(C9_Text, C9_First(C9_Decimal) + 1, Len(C9_Text)), IsDigit)
        nonzero == {i \in 1..Len(d) : d[i] # "0"}
    IN  SubSeq(d, 1, IF nonzero = {} THEN 0 ELSE CHOOSE i \in nonzero : \A j \in nonzero : j <= i)

C9_Scope == call = "normalize"

\* C9: a text with a comma and no dot is read with the comma as the decimal
\* separator; a text with both "," and "." is read with every occurrence of the
\* separator that occurs first removed and the other one as the decimal point;
\* an unsigned text of digits and separators with one decimal separator gives
\* the number so written, one with two decimal separators or no digit raises
\* ValueError; an int or float value is used directly.
C9_Normalization ==
    /\ C9_Scope /\ input.value.k = "int" => output = PyFloat(input.value.v)
    /\ C9_Scope /\ input.value.k = "float" => output = input.value
    /\ C9_Scope /\ input.value.k = "str" /\ C9_Has(",") /\ C9_Text[1] \notin {"+", "-"} =>
           /\ C9_WellFormed =>
                  /\ output.k = "float"
                  /\ output.v = DigitsNat(C9_IntDigits \o C9_FracDigits)
                  /\ output.scale = Len(C9_FracDigits)
           /\ C9_Unreadable => output = PyRaise("ValueError")

\* "1.200,50" normalizes to 1200.5
C9_Witness ==
    /\ C9_Scope
    /\ input.value = PyStr(dot_thousands)
    /\ output = PyDecimal(12005, 1)

\* process reached its loop: the value is a number
C13_Scope == call = "number" /\ NumberRun(input.value, input.ops).looped

C13_Op(i) == Strip(Lower(input.ops[i]))

C13_AllAlpha(token) == \A j \in 1..Len(token) : IsAlpha(token[j])

\* the token is a valid argument of the keyword, in the words of the claim
C13_Valid(op, token) ==
    CASE op = kw_int ->
            token # <<>> /\ (IsDigit(token[1]) \/ token[1] \in {".", "<", ">", "^"})
      [] op \in {kw_float, kw_round, kw_precision} -> AllDigits(token)
      [] op = kw_currency -> Len(token) = 3 /\ C13_AllAlpha(token)
      [] op = kw_spell_out -> Len(token) = 2 /\ C13_AllAlpha(token)

\* position i + 1 was consumed as the argument of the keyword at position i
C13_Consumed(i) == i + 1 <= Len(input.ops) /\ i + 1 \notin visited

\* C13: the token after int, float, round/precision, currency or spell_out is
\* consumed as the keyword's argument exactly when it is present and valid for
\* that keyword; otherwise it is itself executed as a keyword. Every token is
\* executed or consumed exactly once, in order.
C13_LookaheadDiscipline ==
    C13_Scope =>
        /\ \A i \in visited :
              C13_Op(i) \in {kw_int, kw_float, kw_round, kw_precision, kw_currency,
                             kw_spell_out} =>
                 (C13_Consumed(i) <=>
                     i + 1 <= Len(input.ops) /\ C13_Valid(C13_Op(i), input.ops[i + 1]))
        /\ \A j \in 1..Len(input.ops) : j \notin visited => j > 1 /\ j - 1 \in visited

\* C20: the token after ordinal, when present and at most 5 characters long,
\* is consumed as the target language and never executed as a keyword; with no
\* such token the cursor advances by one.
C20_OrdinalLookahead ==
    C13_Scope =>
        \A i \in visited :
            C13_Op(i) = kw_ordinal =>
                (C13_Consumed(i) <=>
                    i + 1 <= Len(input.ops) /\ Len(input.ops[i + 1]) <= 5)

----------------------------------------------------------------------------
(* Calls of DateStrategy.process with operations after a formatting one *)

\* the longest ops list of these calls
MaxDateChainOps == 3

pattern_year == <<"%", "Y">>

DateChainTokens ==
    {kw_iso, kw_year, kw_fmt, kw_short, kw_month_name, kw_add_days, kw_add_years,
     <<"5">>, <<"p", "t">>, pattern_year}

DateChainValues == {PyDateTime(2024, 2, 29, 37800), PyStr(iso_leap_day)}

DateChainInputs(max_ops) ==
    {[fn |-> "date", value |-> v, ops |-> o] :
        v \in DateChainValues, o \in SeqsUpTo(DateChainTokens, max_ops)}

InitDateChain == InitWith(DateChainInputs(MaxDateChainOps))

NextDateChain == DateCall

SpecDateChain == InitDateChain /\ [][NextDateChain]_vars

\* the lengths of the prefixes of ops under which a formatting operation is applied
C25_Formatted ==
    {n \in 1..Len(input.ops) : DateRun(input.value, SubSeq(input.ops, 1, n)).format_applied}

\* a call in which a formatting operation is applied
C25_Scope == DateRan /\ C25_Formatted # {}

\* the length of the prefix of ops that ends at the first formatting operation
\* applied, its argument included
C25_First == MinOf(C25_Formatted)

\* C25: once a formatting operation has been applied, the running result is text
\* and no later token changes it: every later token is passed as a keyword of its
\* own, none is consumed as an argument, and the output is the output of the
\* prefix of ops that ends at the first formatting operation applied.
C25_FirstFormatDecides ==
    C25_Scope =>
        /\ locals.formatted_result.k = "str"
        /\ output = DateStrategy_process(input.value, SubSeq(input.ops, 1, C25_First))
        /\ \A n \in C25_First..Len(input.ops) :
              DateStrategy_process(input.value, SubSeq(input.ops, 1, n)) = output
        /\ C25_First + 1 .. Len(input.ops) \subseteq visited

\* [iso, add_days, 5] gives the text of [iso]: add_days and 5 are passed as
\* keywords, while [add_days, 5] alone moves the date
C25_Witness ==
    /\ C25_Scope
    /\ input.ops = <<kw_iso, kw_add_days, <<"5">>>>
    /\ C25_First = 1
    /\ visited = {1, 2, 3}
    /\ output = PyStr(iso_leap_day)
    /\ DateStrategy_process(input.value, <<kw_add_days, <<"5">>>>) # output

----------------------------------------------------------------------------
(* Calls of NumberStrategy.process with chains of operations *)

\* the longest ops list of these calls
MaxChainOps == 3

ChainTokens ==
    {kw_int, kw_float, kw_currency, kw_fmt, kw_separator, kw_humanize, kw_spell_out,
     kw_ordinal, spec_04d, <<"2">>, code_USD, style_eu}

\* the text float() reads as inf
text_Infinity == <<"I", "n", "f", "i", "n", "i", "t", "y">>

ChainValues == {PyInt(7), PyStr(<<"1", "2", "0", "0", ",", "5">>), PyStr(text_Infinity)}

ChainInputs(max_ops) ==
    {[fn |-> "number", value |-> v, ops |-> o] :
        v \in ChainValues, o \in SeqsUpTo(ChainTokens, max_ops)}

InitNumberChain == InitWith(ChainInputs(MaxChainOps))

NextNumberChain == NumberCall

SpecNumberChain == InitNumberChain /\ [][NextNumberChain]_vars

\* the token after position i was taken as the argument of the keyword at i
C24_Consumed(i) == i + 1 <= Len(input.ops) /\ i + 1 \notin visited

\* the operation at position i takes effect: it was executed and gave the
\* result a new value, or ended the loop (ordinal of inf)
C24_TakesEffect(i) ==
    LET op == Strip(Lower(input.ops[i]))
        token == IF i + 1 <= Len(input.ops) THEN input.ops[i + 1] ELSE <<>>
        finite == ~IsInf(_normalize_to_float(input.value))
    IN  CASE op \in {kw_float, kw_percent, kw_scientific, kw_humanize, kw_ordinal} -> TRUE
          [] op \in {kw_int, kw_currency} -> finite
          [] op \in {kw_fmt, kw_pad, kw_round, kw_precision} -> C24_Consumed(i)
          [] op = kw_spell_out ->
                /\ finite
                /\ (IF C24_Consumed(i) THEN token ELSE default_locale) \in Num2WordsLangs
          [] op = kw_separator ->
                token = <<",", ".">> \/ (finite /\ token = <<".", ",">>)
          [] OTHER -> FALSE

\* the positions of the operations that take effect
C24_Effective == {i \in visited : C24_TakesEffect(i)}

\* C24: the output of process(value, ops) is the output of process for the last
\* operation of ops that takes effect, with its argument, alone; the operations
\* before it have no influence, and with no such operation the output is the
\* one for an empty ops list.  An operation that raises out of the loop is the
\* last one executed, and the output is the one of that operation alone.
C24_LastOperationDecides ==
    C13_Scope =>
        output = IF C24_Effective = {} THEN NumberStrategy_process(input.value, <<>>)
                 ELSE LET i == MaxOf(C24_Effective)
                      IN  NumberStrategy_process(input.value,
                              SubSeq(input.ops, i, IF C24_Consumed(i) THEN i + 1 ELSE i))

\* 7 under [int, currency, USD]: the currency text of 7, as under [currency, USD]
C24_Witness ==
    /\ C13_Scope
    /\ input.value = PyInt(7)
    /\ input.ops = <<kw_int, kw_currency, code_USD>>
    /\ visited = {1, 2}
    /\ C24_Effective = {1, 2}
    /\ output = NumberStrategy_process(PyInt(7), <<kw_currency, code_USD>>)
    /\ output # NumberStrategy_process(PyInt(7), <<kw_int>>)

----------------------------------------------------------------------------
(* Calls of NumberStrategy._humanize_number *)

\* how far below and above each power of 1000 the values of these calls reach
MaxHumanizeDelta == 60

\* the decimal n / 1000^label_idx has its second decimal digit and all after it
\* at exactly one half of the first: the float nearest to it decides the rounding
HumanizeTie(n) ==
    LET t == Pow10(3 * HumanizeSteps(n, 0) - 1)
    IN  HumanizeSteps(n, 0) > 0 /\ 2 * (n % t) = t

\* integers around 1000, 10^6 and 10^9, the rounding ties left out
HumanizeValues(max_delta) ==
    {n \in UNION {{999 - d, 1000 + d, 1000 + 50 * d, 999999 - d, 1000000 + 1000 * d,
                   999999999 - 1000 * d, 1000000000 + d} : d \in 0..max_delta} :
        ~HumanizeTie(n)}

HumanizeInputs(max_delta) ==
    {[fn |-> "humanize", value |-> PyFloat(n)] : n \in HumanizeValues(max_delta)}

\* NumberStrategy()._humanize_number(value)
HumanizeCall ==
    /\ call = "pending"
    /\ input.fn = "humanize"
    /\ call' = "humanize"
    /\ output' = _humanize_number(input.value)
    /\ UNCHANGED <<input, visited, locals, prev>>
    /\ UNCHANGED sse

InitHumanize == InitWith(HumanizeInputs(MaxHumanizeDelta))

NextHumanize == HumanizeCall

SpecHumanize == InitHumanize /\ [][NextHumanize]_vars

\* the output ends with one of the suffixes
C26_HasLabel == output.v # <<>> /\ output.v[Len(output.v)] \in {"K", "M", "B", "T"}

\* the numeric part of the output, as a number
C26_Numeric ==
    ParseFloat(IF C26_HasLabel THEN SubSeq(output.v, 1, Len(output.v) - 1) ELSE output.v)

\* C26: for an integer n of at least 1000 the suffix is the one of the number of
\* divisions by 1000 and the numeric part, rounded to one decimal, lies between 1
\* and 1000, 1000 excluded (never "1000K"); below 1000 there is no suffix.
C26_HumanizeRange ==
    call = "humanize" =>
        IF input.value.v < 1000 THEN ~C26_HasLabel
        ELSE /\ C26_HasLabel
             /\ <<output.v[Len(output.v)]>>
                    = <<<<"K">>, <<"M">>, <<"B">>, <<"T">>>>[HumanizeSteps(input.value.v, 0)]
             /\ C26_Numeric.k = "float"
             /\ NumInt(C26_Numeric) >= 1
             /\ NumInt(C26_Numeric) < 1000

----------------------------------------------------------------------------
(* Calls of TemplateValidator.compare *)

\* the longest list of column names given to compare
MaxHeaders == 3

client_name == <<"c", "l", "i", "e", "n", "t", "_", "n", "a", "m", "e">>

total == <<"t", "o", "t", "a", "l">>

Client_Name == <<"C", "l", "i", "e", "n", "t", "_", "N", "a", "m", "e">>

HeaderNames == {client_name, <<" ">> \o client_name \o <<" ">>, total, Client_Name}

doc_example ==
    [readable |-> TRUE,
     paragraphs |-> <<<<<<"{", "{", "c", "l", "i", "e", "n", "t", "_", "n", "a", "m", "e", "}", "}">>>>, <<<<"T", "o", "t", "a", "l", ":", " ", "{", "{", " ", "t", "o", "t", "a", "l", " ", "|", " ", "u", "p", "p", "e", "r", " ", "}", "}">>>>>>,
     cells |-> <<>>]

doc_split ==
    [readable |-> TRUE,
     paragraphs |-> <<<<<<"D", "e", "a", "r", " ", "{", "{", " ", "c", "l", "i", "e", "n", "t">>, <<"_", "n", "a", "m", "e", " ", "}", "}", ",">>>>>>,
     cells |-> <<<<"{", "{", "C", "l", "i", "e", "n", "t", "_", "N", "a", "m", "e", "}", "}">>>>]

doc_plain ==
    [readable |-> TRUE, paragraphs |-> <<<<<<"{", "t", "o", "t", "a", "l", "}", " ", "{", " ", "{", "t", "o", "t", "a", "l", "}", " ", "}">>>>>>, cells |-> <<<<>>>>]

doc_broken == [readable |-> FALSE, paragraphs |-> <<>>, cells |-> <<>>]

Docs == {doc_example, doc_split, doc_plain, doc_broken}

name_docx == <<"o", "f", "f", "e", "r", ".", "d", "o", "c", "x">>

name_pptx == <<"d", "e", "c", "k", ".", "P", "P", "T", "X">>

name_txt == <<"n", "o", "t", "e", "s", ".", "t", "x", "t">>

Optional(filename, files) == {<<>>} \cup {<<<<filename, f>>>> : f \in files}

TemplateMaps ==
    {a \o b \o c : a \in Optional(name_docx, Docs), b \in Optional(name_pptx, Docs),
                   c \in Optional(name_txt, {doc_example})}

CompareInputs(max_headers) ==
    {[fn |-> "compare", excel_headers |-> h, templates_map |-> m] :
        h \in SeqsUpTo(HeaderNames, max_headers), m \in TemplateMaps}

\* TemplateValidator().compare(excel_headers, templates_map)
CompareCall ==
    /\ call = "pending"
    /\ input.fn = "compare"
    /\ call' = "compare"
    /\ output' = compare(input.excel_headers, input.templates_map)
    /\ UNCHANGED <<input, visited, locals, prev>>
    /\ UNCHANGED sse

InitValidator == InitWith(CompareInputs(MaxHeaders))

NextValidator == CompareCall

SpecValidator == InitValidator /\ [][NextValidator]_vars

----------------------------------------------------------------------------
(* Claims about TemplateValidator *)

\* the variables a template requires: those of its tags when it is analysed
C7_Required(item) ==
    IF item[1] = name_txt \/ ~item[2].readable THEN {}
    ELSE IF item[2] = doc_example THEN {client_name, total}
    ELSE IF item[2] = doc_split THEN {client_name, Client_Name}
    ELSE {}

\* a column is available when trimming it gives exactly the variable's name
C7_Available(name) ==
    \E i \in 1..Len(input.excel_headers) :
        \E lead, trail \in {<<>>, <<" ">>} : input.excel_headers[i] = lead \o name \o trail

C7_Scope == call = "compare"

\* C7: for every template of the map, in order, missing is the set of its
\* required variables that are no trimmed column name, matched is the set of
\* those that are one (exact, case-sensitive equality); the two are disjoint and
\* together equal required; the status is OK exactly when missing is empty and
\* "Missing Data" otherwise; overall_valid is true exactly when every status is OK.
C7_Compare ==
    C7_Scope =>
        /\ Len(output.details) = Len(input.templates_map)
        /\ \A i \in 1..Len(input.templates_map) :
               LET entry == output.details[i]
                   required == C7_Required(input.templates_map[i])
               IN  /\ entry.template = input.templates_map[i][1]
                   /\ entry.missing_vars = {n \in required : ~C7_Available(n)}
                   /\ entry.matched_vars = {n \in required : C7_Available(n)}
                   /\ entry.missing_vars \cap entry.matched_vars = {}
                   /\ entry.missing_vars \cup entry.matched_vars = required
                   /\ entry.status = status_ok <=> entry.missing_vars = {}
                   /\ entry.status = status_missing <=> entry.missing_vars # {}
        /\ output.overall_valid <=>
               \A i \in 1..Len(output.details) : output.details[i].status = status_ok

\* required {client_name, total} against the one column " client_name "
C7_Witness ==
    /\ C7_Scope
    /\ input.excel_headers = <<<<" ">> \o client_name \o <<" ">>>>
    /\ input.templates_map = <<<<name_docx, doc_example>>>>
    /\ output.details[1].missing_vars = {total}
    /\ output.details[1].matched_vars = {client_name}
    /\ output.details[1].status = status_missing
    /\ ~output.overall_valid

\* the tags of the template cannot be extracted (the library raised on the file)
\* or its extension is neither .docx nor .pptx
C28_NotAnalysed(item) ==
    ~item[2].readable \/ Ext(item[1]) \notin {ext_docx, ext_pptx}

\* C28: compare returns its report whatever the templates are; a template whose
\* tags cannot be extracted or whose extension is neither .docx nor .pptx gets an
\* entry with no missing and no matched variables and the status OK, and
\* overall_valid is decided by the other templates alone.
C28_FailOpen ==
    call = "compare" =>
        /\ DOMAIN output = {"overall_valid", "details"}
        /\ Len(output.details) = Len(input.templates_map)
        /\ \A i \in 1..Len(input.templates_map) :
               C28_NotAnalysed(input.templates_map[i]) =>
                   /\ output.details[i].missing_vars = {}
                   /\ output.details[i].matched_vars = {}
                   /\ output.details[i].status = status_ok
        /\ output.overall_valid <=>
               \A i \in 1..Len(input.templates_map) :
                   ~C28_NotAnalysed(input.templates_map[i]) =>
                       output.details[i].status = status_ok

\* an unreadable .docx and a .txt whose text holds tags, next to a .pptx that
\* lacks a column: the two entries are empty and OK, the third decides
C28_Witness ==
    /\ call = "compare"
    /\ input.excel_headers = <<total>>
    /\ input.templates_map =
           <<<<name_docx, doc_broken>>, <<name_pptx, doc_example>>, <<name_txt, doc_example>>>>
    /\ output.details[1].status = status_ok
    /\ output.details[3].status = status_ok
    /\ output.details[3].matched_vars = {}
    /\ output.details[2].missing_vars = {client_name}
    /\ ~output.overall_valid

----------------------------------------------------------------------------
(* Calls of every strategy with a keyword as the last token of ops *)

\* the longest ops list of these calls
MaxTrailingOps == 3

\* per strategy: the tokens before the last one, the keywords that stand last,
\* the values
TrailingCases ==
    [string |-> [tokens |-> {kw_upper, kw_prefix, <<"2">>},
                 last |-> {kw_prefix, kw_suffix, kw_truncate},
                 values |-> {PyNone, PyStr(<<"a", "B", " ", "c">>)}],
     mask |-> [tokens |-> {kw_mask, kw_email, pattern_pair},
               last |-> {kw_mask},
               values |-> {PyNone, PyStr(<<"a", "b", "@", "c", ".", "d">>)}],
     logic |-> [tokens |-> {kw_default, kw_empty_if, tok_aX, tok_a},
                last |-> {kw_default, kw_empty_if},
                values |-> {PyNone, EmptyStr, PyStr(<<"a">>), PyInt(7)}],
     date |-> [tokens |-> {kw_iso, kw_add_days, kw_short, <<"1">>, <<"p", "t">>},
               last |-> {kw_short, kw_medium, kw_long, kw_full, kw_fmt, kw_month_name,
                         kw_add_days, kw_add_years},
               values |-> {PyNone, PyStr(iso_leap_day), PyDateTime(2023, 12, 31, 0),
                           PyStr(<<"s", "o", "o", "n">>)}],
     number |-> [tokens |-> {kw_int, kw_currency, kw_separator, <<"2">>, style_eu},
                 last |-> {kw_fmt, kw_pad, kw_separator},
                 values |-> {PyNone, PyInt(7), PyStr(<<"1", "2", "0", "0", ",", "5">>),
                             PyStr(<<"a", "b">>)}],
     boolean |-> [tokens |-> {kw_bool, kw_check, <<"Y", "e", "s">>, <<"N", "o">>},
                  last |-> {kw_bool},
                  values |-> {PyNone, PyBool(TRUE), PyInt(0), PyStr(<<"S", "i", "m">>)}]]

TrailingInputs(max_ops) ==
    UNION {{[fn |-> "trailing", strategy |-> s, value |-> v, ops |-> body \o <<last>>] :
                v \in TrailingCases[s].values,
                body \in SeqsUpTo(TrailingCases[s].tokens, max_ops - 1),
                last \in TrailingCases[s].last} :
           s \in DOMAIN TrailingCases}

\* the return of a call of process(value, ops) of one strategy, with the return
\* of the same call without the last token and the positions executed as keywords
TrailingCall(strategy, returned, shorter, seen) ==
    /\ call = "pending"
    /\ input.fn = "trailing"
    /\ input.strategy = strategy
    /\ call' = "trailing"
    /\ output' = returned
    /\ prev' = shorter
    /\ visited' = seen
    /\ UNCHANGED <<input, locals>>
    /\ UNCHANGED sse

\* ops without its last token
Front(ops) == SubSeq(ops, 1, Len(ops) - 1)

TrailingString ==
    TrailingCall("string", StringStrategy_process(input.value, input.ops),
                 StringStrategy_process(input.value, Front(input.ops)),
                 IF input.value = PyNone THEN {}
                 ELSE StringScan(input.ops, 1, Str(input.value), {}).seen)

TrailingMask ==
    TrailingCall("mask", MaskStrategy_process(input.value, input.ops),
                 MaskStrategy_process(input.value, Front(input.ops)),
                 IF input.value = PyNone THEN {}
                 ELSE MaskScan(input.ops, 1, Str(input.value), {}).seen)

TrailingLogic ==
    TrailingCall("logic", LogicStrategy_process(input.value, input.ops),
                 LogicStrategy_process(input.value, Front(input.ops)),
                 LogicRun(input.value, input.ops).seen)

TrailingDate ==
    TrailingCall("date", DateStrategy_process(input.value, input.ops),
                 DateStrategy_process(input.value, Front(input.ops)),
                 IF /\ input.value # PyNone
                    /\ Strip(Str(input.value)) # <<>>
                    /\ DateNormalize(input.value).ok
                 THEN DateRun(input.value, input.ops).seen ELSE {})

TrailingNumber ==
    TrailingCall("number", NumberStrategy_process(input.value, input.ops),
                 NumberStrategy_process(input.value, Front(input.ops)),
                 NumberRun(input.value, input.ops).seen)

TrailingBoolean ==
    TrailingCall("boolean", BooleanStrategy_process(input.value, input.ops),
                 BooleanStrategy_process(input.value, Front(input.ops)),
                 BooleanRun(input.value, input.ops).seen)

InitTrailing == InitWith(TrailingInputs(MaxTrailingOps))

NextTrailing ==
    \/ TrailingString
    \/ TrailingMask
    \/ TrailingLogic
    \/ TrailingDate
    \/ TrailingNumber
    \/ TrailingBoolean

SpecTrailing == InitTrailing /\ [][NextTrailing]_vars

----------------------------------------------------------------------------
(* Claims about every strategy *)

\* the keywords that require a following argument token
C19_ArgKeywords ==
    {kw_prefix, kw_suffix, kw_truncate, kw_mask, kw_default, kw_empty_if, kw_short,
     kw_medium, kw_long, kw_full, kw_fmt, kw_month_name, kw_add_days, kw_add_years,
     kw_pad, kw_separator, kw_bool}

\* the keywords that may take the token after them as their argument
C19_Lookahead ==
    C19_ArgKeywords \cup {kw_int, kw_float, kw_round, kw_precision, kw_currency,
                          kw_spell_out}

C19_Key(tok) == Strip(Lower(tok))

\* the last token of ops was taken as an argument by the last keyword executed
C19_LastConsumed ==
    /\ visited # {}
    /\ LET p == MaxOf(visited)
       IN  /\ p < Len(input.ops)
           /\ C19_Key(input.ops[p]) \in C19_Lookahead
           /\ Len(input.ops) <= p + (IF C19_Key(input.ops[p]) = kw_bool THEN 2 ELSE 1)

\* the last token of ops stands as a keyword that requires an argument
C19_Scope ==
    /\ call = "trailing"
    /\ C19_Key(input.ops[Len(input.ops)]) \in C19_ArgKeywords
    /\ ~C19_LastConsumed

\* C19: when a keyword that requires a following argument is the last token of
\* ops, the call does not raise and its output is the output for the same value
\* with that trailing keyword removed, in every strategy.
C19_ArgumentMissing == C19_Scope => output.k # "raise" /\ output = prev

\* 2024-02-29 under [add_days, 1, short]: the date plus one day, as under
\* [add_days, 1]
C19_Witness ==
    /\ C19_Scope
    /\ input.strategy = "date"
    /\ input.value = PyStr(iso_leap_day)
    /\ input.ops = <<kw_add_days, <<"1">>, kw_short>>
    /\ visited = {1, 3}
    /\ output = PyStr(<<"2", "0", "2", "4", "-", "0", "3", "-", "0", "1">>)

----------------------------------------------------------------------------
(* Calls of DocumentEngine._parse_and_replace_pptx_text *)

\* the largest number of pieces a text is made of
MaxPieces == 3

\* plain text
text_plain ==
    <<"a", " ">>

\* braces around two names: not a tag
text_two_names ==
    <<"{", "{", " ", "x", " ", "y", " ", "}", "}">>

\* closing braces alone
text_closing ==
    <<"}", "}">>

\* a tag without filter
tag_plain ==
    <<"{", "{", "x", "}", "}">>

\* a tag with an unrecognized filter name, on a name the row lacks
tag_unknown ==
    <<"{", "{", " ", "y", " ", "|", " ", "n", "o", "p", "e", "(", "'", "1", "'", ")",
        " ", "}", "}">>

\* a tag with a known filter
tag_string ==
    <<"{", "{", " ", "x", " ", "|", " ", "f", "o", "r", "m", "a", "t", "_", "s", "t",
        "r", "i", "n", "g", "(", "'", "u", "p", "p", "e", "r", "'", ")", " ", "}",
        "}">>

\* a known filter without parentheses
tag_int ==
    <<"{", "{", "n", "|", "f", "o", "r", "m", "a", "t", "_", "i", "n", "t", "}", "}">>

\* a known filter with two quoted arguments
tag_currency ==
    <<"{", "{", " ", "n", " ", "|", " ", "f", "o", "r", "m", "a", "t", "_", "c", "u",
        "r", "r", "e", "n", "c", "y", "(", "\"", "U", "S", "D", "\"", ",", " ", "'",
        "x", "'", ")", " ", "}", "}">>

\* a pipe with an empty filter clause, closed on the next line
tag_newline ==
    <<"{", "{", " ", "x", " ", "|", "\n", "}", "}">>

PlainPieces == {text_plain, text_two_names, text_closing}

TagPieces == {tag_plain, tag_unknown, tag_string, tag_int, tag_currency, tag_newline}

\* the rows: the raw value of every column
EngineContexts ==
    {(<<"x">> :> PyStr(<<"a", "b">>)) @@ (<<"n">> :> PyInt(1500)),
     (<<"x">> :> PyNone) @@ (<<"n">> :> PyDecimal(12005, 1))}

EngineInputs(max_pieces) ==
    {[fn |-> "substitute", pieces |-> p, context |-> c] :
        p \in SeqsUpTo(PlainPieces \cup TagPieces, max_pieces), c \in EngineContexts}

\* DocumentEngine()._parse_and_replace_pptx_text(text, context), the text being
\* the pieces in a row
SubstituteCall ==
    /\ call = "pending"
    /\ input.fn = "substitute"
    /\ call' = "substitute"
    /\ output' = _parse_and_replace_pptx_text(Concat(input.pieces), input.context)
    /\ UNCHANGED <<input, visited, locals, prev>>
    /\ UNCHANGED sse

InitEngine == InitWith(EngineInputs(MaxPieces))

NextEngine == SubstituteCall

SpecEngine == InitEngine /\ [][NextEngine]_vars

----------------------------------------------------------------------------
(* Claims about DocumentEngine._parse_and_replace_pptx_text *)

\* the tag a piece is, read alone
C14_Tag(piece) == TagMatch(piece, 1)

\* the row's raw value of the tag's name, "" when the row has no such column
C14_Raw(piece) ==
    IF C14_Tag(piece).var_name \in DOMAIN input.context
    THEN input.context[C14_Tag(piece).var_name] ELSE EmptyStr

\* the tag has an unrecognized filter name, or its resolution raises
C14_Fails(piece) ==
    /\ piece \in TagPieces
    /\ C14_Tag(piece).has_filter
    /\ LET f == FilterCall(C14_Tag(piece).filter_part)
       IN  \/ f.strat_key = <<>>
           \/ _apply_strategy(f.strat_key, C14_Raw(piece), f.final_args).k = "raise"

\* what a piece becomes: a failing tag the string form of its raw value, any
\* other tag what the substitution of that tag alone gives, other text itself
C14_Piece(piece) ==
    IF C14_Fails(piece) THEN Str(C14_Raw(piece))
    ELSE IF piece \in TagPieces
    THEN _parse_and_replace_pptx_text(piece, input.context).v
    ELSE piece

C14_Scope ==
    /\ call = "substitute"
    /\ \E n \in 1..Len(input.pieces) : C14_Fails(input.pieces[n])

\* C14: in a text with a failing tag (unrecognized filter name, or a resolution
\* that raises), the call does not raise, the failing tag becomes the string
\* form of its raw value, every other tag is substituted as it is alone, and
\* the text outside the tags is unchanged.
C14_Isolation ==
    C14_Scope =>
        /\ output.k = "str"
        /\ output.v = Concat([n \in 1..Len(input.pieces) |-> C14_Piece(input.pieces[n])])

\* a tag whose resolution raises, plain text, and a tag without filter
C14_Witness ==
    /\ C14_Scope
    /\ input.pieces = <<tag_int, text_plain, tag_plain>>
    /\ input.context[<<"n">>] = PyInt(1500)
    /\ output = PyStr(<<"1", "5", "0", "0", "a", " ", "a", "b">>)

\* the Registry: process(value, ops) of the strategy registered under the key
C15_Registry(strat_key, value, ops) ==
    CASE strat_key = <<"s", "t", "r", "i", "n", "g">> -> StringStrategy_process(value, ops)
      [] strat_key = <<"n", "u", "m", "b", "e", "r">> -> NumberStrategy_process(value, ops)
      [] strat_key = <<"d", "a", "t", "e">> -> DateStrategy_process(value, ops)
      [] strat_key = <<"b", "o", "o", "l">> -> BooleanStrategy_process(value, ops)
      [] strat_key = <<"m", "a", "s", "k">> -> MaskStrategy_process(value, ops)
      [] strat_key = <<"l", "o", "g", "i", "c">> -> LogicStrategy_process(value, ops)

\* the text is one tag with a known filter name
C15_Scope ==
    /\ call = "substitute"
    /\ Len(input.pieces) = 1
    /\ input.pieces[1] \in TagPieces
    /\ C14_Tag(input.pieces[1]).has_filter
    /\ FilterCall(C14_Tag(input.pieces[1]).filter_part).strat_key # <<>>

\* C15: a tag with a known filter name is replaced by the string form of what
\* the Registry returns for the row's raw value under the mapped strategy and
\* the extra leading ops followed by the tag's arguments.
C15_FilterMapping ==
    C15_Scope =>
        LET f == FilterCall(C14_Tag(input.pieces[1]).filter_part)
        IN  output = PyStr(Str(C15_Registry(f.strat_key, C14_Raw(input.pieces[1]),
                                            f.final_args)))

\* the text holds the tag "{{x}}" and no tag with a filter on x, and the value
\* of x is null in the row
C29_Scope ==
    /\ call = "substitute"
    /\ tag_plain \in Range(input.pieces)
    /\ Range(input.pieces) \cap {tag_string, tag_newline} = {}
    /\ input.context[<<"x">>] = PyNone

\* the row without the column x
C29_Absent == [n \in DOMAIN input.context \ {<<"x">>} |-> input.context[n]]

\* C29: a tag without filter on a variable whose value is null is replaced by
\* the text an absent variable is replaced by, the empty string; the text of a
\* null marker never appears.
C29_NullAsAbsent ==
    C29_Scope =>
        /\ output = _parse_and_replace_pptx_text(Concat(input.pieces), C29_Absent)
        /\ ~\E i \in 1..(Len(output.v) - 3) :
               SubSeq(output.v, i, i + 3) = <<"N", "o", "n", "e">>

----------------------------------------------------------------------------
(* Calls of DocumentEngine.process_pptx on one paragraph of a slide *)

\* the largest number of runs of the paragraph
MaxRuns == 3

\* the two halves of a tag that formatting split into two runs
run_open == <<"{", "{">>

run_close == <<"x", "}", "}">>

\* a dotted body
tag_dotted == <<"{", "{", " ", "x", ".", "b", " ", "}", "}">>

\* a tag on a name the row lacks
tag_absent == <<"{", "{", " ", "y", " ", "}", "}">>

RunTexts ==
    {text_plain, tag_plain, run_open, run_close, tag_dotted, text_two_names, tag_absent}

RenderInputs(max_runs) ==
    {[fn |-> "render", runs |-> r, context |-> c] :
        r \in SeqsUpTo(RunTexts, max_runs), c \in EngineContexts}

\* the template of the call: one slide with one shape holding the paragraph
RenderFile == [readable |-> TRUE, paragraphs |-> <<input.runs>>, cells |-> <<>>]

\* DocumentEngine().process_pptx(template_path, output_path, context): the runs
\* of the paragraph afterwards; locals keeps the names of the tags replaced
RenderCall ==
    /\ call = "pending"
    /\ input.fn = "render"
    /\ call' = "render"
    /\ output' = RenderParagraph(input.runs, input.context)
    /\ locals' = UNION {IF HasOpen(input.runs[i]) THEN ReplacedNames(input.runs[i], 1)
                        ELSE {} : i \in 1..Len(input.runs)}
    /\ UNCHANGED <<input, visited, prev>>
    /\ UNCHANGED sse

InitRender == InitWith(RenderInputs(MaxRuns))

NextRender == RenderCall

SpecRender == InitRender /\ [][NextRender]_vars

----------------------------------------------------------------------------
(* Claims about the Validator and DocumentEngine.process_pptx *)

\* the entry compare reports for the template, the columns being the names of
\* the row
C27_Report == ReportEntry(name_pptx, RenderFile, DOMAIN input.context)

\* C27: for a paragraph of a slide the names the Validator extracts are the names
\* of the tags the engine replaces, and when compare reports OK no tag text
\* remains in the rendered paragraph (also for a tag split across two runs and
\* for the bodies "{{ a.b }}" and "{{ a b }}").
C27_Agreement ==
    call = "render" =>
        /\ extract_tags_from_pptx(RenderFile) = locals
        /\ C27_Report.status = status_ok =>
              /\ output.k = "runs"
              /\ _extract_from_text(Concat(output.v)) = {}

----------------------------------------------------------------------------
(* Calls of BooleanStrategy.process *)

\* the longest ops list of these calls
MaxBooleanOps == 3

tok_Yes == <<"Y", "e", "s">>

tok_No == <<"N", "o">>

BooleanTokens == {kw_bool, kw_check, tok_Yes, tok_No, <<" ", "B", "O", "O", "L", " ">>}

BooleanValues ==
    {PyNone, PyBool(TRUE), PyBool(FALSE), PyInt(0), PyInt(1), PyInt(2), PyFloat(1),
     EmptyStr, PyStr(<<" ", "Y", "e", "s", " ">>), PyStr(<<"S", "I", "M">>),
     PyStr(<<"o", "n">>), PyStr(<<"1">>), PyStr(<<"n", "o">>),
     PyStr(<<"t", "r", "u", "e", "x">>), PyStr(<<"T">>)}

BooleanInputs(max_ops) ==
    {[fn |-> "boolean", value |-> v, ops |-> o] :
        v \in BooleanValues, o \in SeqsUpTo(BooleanTokens, max_ops)}

\* BooleanStrategy().process(value, ops)
BooleanCall ==
    /\ call = "pending"
    /\ input.fn = "boolean"
    /\ call' = "boolean"
    /\ output' = BooleanStrategy_process(input.value, input.ops)
    /\ visited' = BooleanRun(input.value, input.ops).seen
    /\ UNCHANGED <<input, locals, prev>>
    /\ UNCHANGED sse

InitBoolean == InitWith(BooleanInputs(MaxBooleanOps))

NextBoolean == BooleanCall

SpecBoolean == InitBoolean /\ [][NextBoolean]_vars

----------------------------------------------------------------------------
(* Claims about BooleanStrategy.process *)

\* the value is boolean true, the integer 1, or a truthy text
C21_True ==
    \/ input.value = PyBool(TRUE)
    \/ input.value = PyInt(1)
    \/ /\ input.value.k = "str"
       /\ Lower(Strip(input.value.v)) \in
            {<<"t", "r", "u", "e">>, <<"t">>, <<"y", "e", "s">>, <<"y">>, <<"1">>,
             <<"s">>, <<"s", "i", "m">>, <<"o", "n">>}

\* the positions of ops that hold a bool or check keyword
C21_Keywords ==
    {i \in 1..Len(input.ops) : Strip(Lower(input.ops[i])) \in {kw_bool, kw_check}}

\* what the claim says the call returns
C21_Expected ==
    IF C21_Keywords = {} THEN BoolStr(C21_True)
    ELSE LET i == MinOf(C21_Keywords)
         IN  IF Strip(Lower(input.ops[i])) = kw_check
             THEN IF C21_True THEN glyph_checked ELSE glyph_unchecked
             ELSE IF i + 2 <= Len(input.ops)
             THEN IF C21_True THEN input.ops[i + 1] ELSE input.ops[i + 2]
             ELSE BoolStr(C21_True)

\* C21: the value is true exactly when it is boolean true, the integer 1 or a
\* truthy text; the first bool or check keyword of ops decides the output (bool
\* with two following tokens the first or the second of them, bool with fewer
\* the plain boolean, check a box glyph), no keyword gives the plain boolean.
C21_Boolean == call = "boolean" => output = PyStr(C21_Expected)

\* "SIM" under [bool, Yes, No]: the first label
C21_Witness ==
    /\ call = "boolean"
    /\ input.value = PyStr(<<"S", "I", "M">>)
    /\ input.ops = <<kw_bool, tok_Yes, tok_No>>
    /\ visited = {1}
    /\ output = PyStr(tok_Yes)

----------------------------------------------------------------------------
(* Calls of the '#' pattern mask *)

\* the longest pattern and the longest value text of these calls
MaxPattern == 4

MaxPatternText == 3

PatternValues(max_text) ==
    {PyStr(t) : t \in SeqsUpTo({"1", "b", "#"}, max_text)} \cup {PyInt(12345)}

PatternInputs(max_pattern, max_text) ==
    {[fn |-> f, value |-> v, pattern |-> p] :
        f \in {"pattern", "format_mask"}, v \in PatternValues(max_text),
        p \in SeqsUpTo({"#", "-", "x"}, max_pattern)}

\* MaskStrategy().process(value, ["mask", pattern])
PatternCall ==
    /\ call = "pending"
    /\ input.fn = "pattern"
    /\ call' = "pattern"
    /\ output' = MaskStrategy_process(input.value, <<kw_mask, input.pattern>>)
    /\ UNCHANGED <<input, visited, locals, prev>>
    /\ UNCHANGED sse

\* DataFormatter().format_value(value, {"type": "mask", "format": pattern})
FormatMaskCall ==
    /\ call = "pending"
    /\ input.fn = "format_mask"
    /\ call' = "format_mask"
    /\ output' = format_value(input.value, [type |-> PyStr(t_mask),
                                            format |-> PyStr(input.pattern)])
    /\ UNCHANGED <<input, visited, locals, prev>>
    /\ UNCHANGED sse

InitPattern == InitWith(PatternInputs(MaxPattern, MaxPatternText))

NextPattern == PatternCall \/ FormatMaskCall

SpecPattern == InitPattern /\ [][NextPattern]_vars

----------------------------------------------------------------------------
(* Claims about the '#' pattern mask *)

\* the alphanumeric characters of the value, in order
C22_Clean == SelectSeq(Str(input.value), LAMBDA c : IsAlnum(c))

\* the positions of '#' in the pattern
C22_Hashes == {p \in 1..Len(input.pattern) : input.pattern[p] = "#"}

\* how many '#' the pattern holds up to position p
C22_Rank(p) == Cardinality({q \in C22_Hashes : q <= p})

\* the part of the pattern that is scanned: up to the first '#' reached after
\* the value's alphanumeric characters are used up
C22_Scanned ==
    LET beyond == {p \in C22_Hashes : C22_Rank(p) > Len(C22_Clean)}
    IN  IF beyond = {} THEN Len(input.pattern) ELSE MinOf(beyond) - 1

\* a pattern is applied: the mask op of the strategy, or a mask directive of
\* format_value with a pattern
C22_Scope ==
    \/ call = "pattern"
    \/ call = "format_mask" /\ input.pattern # <<>>

\* C22: the output copies every non-'#' character of the scanned pattern and
\* puts the next alphanumeric character of the value for each '#'; it holds no
\* '#', and the characters taken from the value are the first
\* min(number of '#', number of alphanumeric characters) of them, in order.
C22_PatternMask ==
    C22_Scope =>
        /\ output.k = "str"
        /\ Len(output.v) = C22_Scanned
        /\ \A p \in 1..C22_Scanned :
              output.v[p] = IF input.pattern[p] = "#" THEN C22_Clean[C22_Rank(p)]
                            ELSE input.pattern[p]
        /\ "#" \notin Range(output.v)
        /\ C22_Rank(C22_Scanned) =
              IF Cardinality(C22_Hashes) < Len(C22_Clean) THEN Cardinality(C22_Hashes)
              ELSE Len(C22_Clean)

\* "1#b" under the pattern "#x##": the scan stops at the third '#'
C22_Witness ==
    /\ call = "pattern"
    /\ input.value = PyStr(<<"1", "#", "b">>)
    /\ input.pattern = <<"#", "x", "#", "#">>
    /\ output = PyStr(<<"1", "x", "b">>)

----------------------------------------------------------------------------
(* Steps of the log streams *)

\* the variables of the calls of the formatting pipeline
calls == <<call, input, output, visited, locals, prev>>

\* stream g reads its queue, or is suspended at the yield of what it read
Reading(g) == pc[g] \in {"get", "yielded"}

\* stream_logs(session_id): log_generator makes its queue, registers it and
\* waits for the first message
StreamLogs(g, s) ==
    /\ pc[g] = "idle"
    /\ session_id' = [session_id EXCEPT ![g] = s]
    /\ queue' = [queue EXCEPT ![g] = <<>>]
    /\ log_queues' = [t \in DOMAIN log_queues \cup {s} |-> IF t = s THEN g ELSE log_queues[t]]
    /\ pc' = [pc EXCEPT ![g] = "get"]
    /\ UNCHANGED <<stream, sent, heard, calls>>

\* send_log(session_id, message), called by the job of the session with its
\* next log line or with its last message
SendLog(s, message) ==
    /\ sent[s] <= MaxLines
    /\ message \in LastMessages \cup {LogLine(sent[s] + 1)}
    /\ queue' = IF s \in DOMAIN log_queues
                THEN [queue EXCEPT ![log_queues[s]] = Append(@, message)]
                ELSE queue
    /\ sent' = [sent EXCEPT ![s] = IF IsLast(message) THEN MaxLines + 1 ELSE @ + 1]
    /\ heard' = [g \in Streams |->
                    IF Reading(g) /\ session_id[g] = s THEN Append(heard[g], message)
                    ELSE heard[g]]
    /\ UNCHANGED <<log_queues, pc, session_id, stream, calls>>

\* queue.get() returns and the data is yielded
GetData(g) ==
    /\ pc[g] = "get"
    /\ queue[g] # <<>>
    /\ stream' = [stream EXCEPT ![g] = Append(@, Head(queue[g]))]
    /\ queue' = [queue EXCEPT ![g] = Tail(@)]
    /\ pc' = [pc EXCEPT ![g] = "yielded"]
    /\ UNCHANGED <<log_queues, session_id, sent, heard, calls>>

\* after the yield: break on a last message, else the next queue.get()
Resume(g) ==
    /\ pc[g] = "yielded"
    /\ IF IsLast(stream[g][Len(stream[g])])
       THEN /\ pc' = [pc EXCEPT ![g] = "done"]
            /\ log_queues' = Finally(g)
       ELSE /\ pc' = [pc EXCEPT ![g] = "get"]
            /\ UNCHANGED log_queues
    /\ UNCHANGED <<queue, session_id, stream, sent, heard, calls>>

\* asyncio.TimeoutError: no message came in time, the heartbeat is yielded
TimeOut(g) ==
    /\ pc[g] = "get"
    /\ queue[g] = <<>>
    /\ stream' = [stream EXCEPT ![g] = Append(@, HEARTBEAT_TIMEOUT)]
    /\ pc' = [pc EXCEPT ![g] = "timeout"]
    /\ UNCHANGED <<log_queues, queue, session_id, sent, heard, calls>>

\* after the yield of the heartbeat: break
Leave(g) ==
    /\ pc[g] = "timeout"
    /\ pc' = [pc EXCEPT ![g] = "done"]
    /\ log_queues' = Finally(g)
    /\ UNCHANGED <<queue, session_id, stream, sent, heard, calls>>

InitStreams ==
    /\ call = "streams"
    /\ input = PyNone
    /\ output = PyNone
    /\ visited = {}
    /\ locals = <<>>
    /\ prev = PyNone
    /\ NoStreams

NextStreams ==
    \/ \E g \in Streams, s \in Sessions : StreamLogs(g, s)
    \/ \E s \in Sessions, message \in Messages : SendLog(s, message)
    \/ \E g \in Streams : GetData(g)
    \/ \E g \in Streams : Resume(g)
    \/ \E g \in Streams : TimeOut(g)
    \/ \E g \in Streams : Leave(g)

SpecStreams == InitStreams /\ [][NextStreams]_vars

----------------------------------------------------------------------------
(* Claims about the log streams *)

\* the log_generator of stream g is running: started and not yet left
C30_Running(g) == pc[g] \in {"get", "yielded", "timeout"}

\* C30: under every interleaving, log_queues holds an entry for a session exactly
\* while a log_generator for that session is running, and the entry is the queue
\* a running generator of the session reads from; the messages sent while a
\* generator reads are delivered to it in the order they were sent; the stream
\* ends after the first message that holds PROCESS_COMPLETE or PROCESS_ERROR
\* (also with two streams for one session id, one of them ending first).
C30_LogQueues ==
    call = "streams" =>
        /\ \A s \in Sessions :
              s \in DOMAIN log_queues <=> \E g \in Streams : C30_Running(g) /\ session_id[g] = s
        /\ \A s \in DOMAIN log_queues :
              C30_Running(log_queues[s]) /\ session_id[log_queues[s]] = s
        /\ \A g \in Streams : Reading(g) => stream[g] \o queue[g] = heard[g]
        /\ \A g \in Streams : \A i \in 1..Len(stream[g]) :
              IsLast(stream[g][i]) => i = Len(stream[g])
        /\ \A g \in Streams :
              pc[g] = "done" =>
                  stream[g][Len(stream[g])] \in LastMessages \cup {HEARTBEAT_TIMEOUT}

====
